---- MODULE Spec2Model ----
(***************************************************************************)
(* Model of the sunrpc library: XDR packer/unpacker use, server-side call  *)
(* header validation and dispatch (server.py), client-side call creation   *)
(* and reply correlation (client.py, sunrpc.py).                           *)
(*                                                                         *)
(* Buffers are sequences of bytes (0..255).  Python's 0-based positions    *)
(* are kept: position p designates the byte buf[p+1] of the TLA+ sequence. *)
(***************************************************************************)
EXTENDS Integers, Sequences, FiniteSets, TLC

VARIABLES server,     \* Server object: prog, vers, prot
          hpc,        \* position of the handle() driver: "ready" | "done"
          call_in,    \* bytes handed to Server.handle
          h,          \* outcome of Server.handle(call_in)
          status,     \* transport loop: "listening" | "connected" | "dead"
          rcvd,       \* records / datagrams received by the transport loop, in order
          sent,       \* records / datagrams written to the transport, in order
          client,     \* Client object: lastxid
          xids,       \* xids of the Calls returned by make_call, in order
          call,       \* the Call object under consideration
          reply_in,   \* bytes handed to the last Call.set_reply
          ret,        \* outcome of the last Call.set_reply
          frag,       \* record-marked framing: one sendrecord and one recvrecord
          tcpc,       \* TCPClient.do_call in progress: socket traffic and position
          udpc,       \* UDPClient.do_call in progress: socket, count, timeout
          conns,      \* connections of a TCP server: task positions and event log
          pxy,        \* Proxy: upstream client, upstream call, reply
          reg,        \* Server.register / unregister: port, registered, portmapper
          xdr         \* sunrpc.types: a value, its packed bytes, what unpack yields

\* the variables none of the actions before the server's connections touch
rest == <<conns, pxy, reg, xdr>>

vars == <<server, hpc, call_in, h, status, rcvd, sent, client, xids, call, reply_in, ret,
          frag, tcpc, udpc, rest>>

----------------------------------------------------------------------------
(* Protocol constants, sunrpc.py lines 10-38 *)

RPCVERSION == 2
CALL == 0
REPLY == 1
AUTH_NULL == 0
AUTH_UNIX == 1
MSG_ACCEPTED == 0
MSG_DENIED == 1
SUCCESS == 0
PROG_UNAVAIL == 1
PROG_MISMATCH == 2
PROC_UNAVAIL == 3
GARBAGE_ARGS == 4
RPC_MISMATCH == 0
AUTH_ERROR == 1
IPPROTO_TCP == 6
IPPROTO_UDP == 17

----------------------------------------------------------------------------
(* Bounds of the model *)

MaxArgWords == 2      \* longest argument tail of a generated call, in words
MaxRecords == 3       \* records a transport loop receives
MaxCalls == 3         \* make_call invocations on one client
MaxResultWords == 1   \* longest result payload of a generated reply, in words

----------------------------------------------------------------------------
(* xdrlib.Packer as used by sunrpc.Packer: every pack_* appends to the     *)
(* buffer; here each returns the bytes it appends.                         *)

Zeros(n) == [i \in 1..n |-> 0]

Pad4(n) == ((n + 3) \div 4) * 4

\* struct.pack('>L', x), big-endian
pack_uint(x) ==
    <<x \div 16777216, (x \div 65536) % 256, (x \div 256) % 256, x % 256>>

\* struct.pack('>l', x): two's complement of a negative value
pack_int(x) ==
    IF x < 0
    THEN <<255 - ((-x - 1) \div 16777216), 255 - (((-x - 1) \div 65536) % 256),
           255 - (((-x - 1) \div 256) % 256), 255 - ((-x - 1) % 256)>>
    ELSE pack_uint(x)

pack_enum(x) == pack_int(x)

\* pack_fstring(n, s): the first n bytes (s[:n], fewer when s is shorter),
\* zero padded to the multiple of 4 that holds n bytes
pack_fstring(n, s) ==
    SubSeq(s, 1, IF n > Len(s) THEN Len(s) ELSE n)
      \o Zeros(Pad4(n) - (IF n > Len(s) THEN Len(s) ELSE n))

pack_opaque(s) == pack_uint(Len(s)) \o pack_fstring(Len(s), s)

\* sunrpc.Packer.pack_auth
pack_auth(auth) == pack_enum(auth.flavor) \o pack_opaque(auth.stuff)

make_auth_null == << >>

NullAuth == [flavor |-> AUTH_NULL, stuff |-> make_auth_null]

\* sunrpc.Packer.pack_callheader
pack_callheader(xid, prog, vers, proc, cred, verf) ==
    pack_uint(xid) \o pack_enum(CALL) \o pack_uint(RPCVERSION) \o pack_uint(prog)
      \o pack_uint(vers) \o pack_uint(proc) \o pack_auth(cred) \o pack_auth(verf)

----------------------------------------------------------------------------
(* xdrlib.Unpacker as used by sunrpc.Unpacker.  Every unpack_* takes the   *)
(* buffer and the position and returns [ok, val, pos]; ok = FALSE stands   *)
(* for EOFError.                                                           *)

\* Python slice buf[i:j]
Slice(buf, i, j) ==
    IF i >= Len(buf) THEN << >>
    ELSE SubSeq(buf, i + 1, IF j > Len(buf) THEN Len(buf) ELSE j)

\* unpack_uint: the position moves before the length check
unpack_uint(buf, pos) ==
    LET data == Slice(buf, pos, pos + 4) IN
    IF Len(data) < 4
    THEN [ok |-> FALSE, val |-> 0, pos |-> pos + 4]
    ELSE [ok |-> TRUE,
          val |-> data[1] * 16777216 + data[2] * 65536 + data[3] * 256 + data[4],
          pos |-> pos + 4]

\* unpack_int: struct.unpack('>l'), signed
unpack_int(buf, pos) ==
    LET data == Slice(buf, pos, pos + 4) IN
    IF Len(data) < 4
    THEN [ok |-> FALSE, val |-> 0, pos |-> pos + 4]
    ELSE [ok |-> TRUE,
          val |-> (IF data[1] >= 128 THEN data[1] - 256 ELSE data[1]) * 16777216
                    + data[2] * 65536 + data[3] * 256 + data[4],
          pos |-> pos + 4]

unpack_enum(buf, pos) == unpack_int(buf, pos)

\* unpack_fstring(n): fails before moving when the padded field is too long
unpack_fstring(buf, pos, n) ==
    IF pos + Pad4(n) > Len(buf)
    THEN [ok |-> FALSE, val |-> << >>, pos |-> pos]
    ELSE [ok |-> TRUE, val |-> Slice(buf, pos, pos + n), pos |-> pos + Pad4(n)]

unpack_opaque(buf, pos) ==
    LET n == unpack_uint(buf, pos) IN
    IF ~n.ok THEN [ok |-> FALSE, val |-> << >>, pos |-> n.pos]
    ELSE unpack_fstring(buf, n.pos, n.val)

\* sunrpc.Unpacker.unpack_auth
unpack_auth(buf, pos) ==
    LET flavor == unpack_enum(buf, pos) IN
    IF ~flavor.ok THEN [ok |-> FALSE, val |-> NullAuth, pos |-> flavor.pos]
    ELSE LET stuff == unpack_opaque(buf, flavor.pos) IN
         [ok |-> stuff.ok,
          val |-> [flavor |-> flavor.val, stuff |-> stuff.val],
          pos |-> stuff.pos]

\* Unpacker.done(): TRUE when no unextracted data remains
done(buf, pos) == ~(pos < Len(buf))

----------------------------------------------------------------------------
(* Server side: server.py *)

\* return values of Server.handle: None, reply bytes, or an exception that
\* leaves handle
ReturnNone == [kind |-> "none", bytes |-> << >>, exc |-> ""]
ReturnBytes(b) == [kind |-> "reply", bytes |-> b, exc |-> ""]
Raises(e) == [kind |-> "raise", bytes |-> << >>, exc |-> e]

\* outcome of get_call_attrs / process_call:
\*   kind "ok"      returned normally
\*   kind "header"  raised RPCHeaderError(response)
\*   kind "eof"     raised EOFError
\*   kind "garbage" raised RPCGarbageArgs
\*   kind "error"   raised another exception (exc)
Outcome(kind, response, xid, call_id, auth, verf, pos, packer, exc, invoked, entry) ==
    [kind |-> kind, response |-> response, xid |-> xid, call_id |-> call_id,
     auth |-> auth, verf |-> verf, pos |-> pos, packer |-> packer, exc |-> exc,
     invoked |-> invoked, entry |-> entry]

HeaderError(response, pos, packer) ==
    Outcome("header", response, 0, 0, NullAuth, NullAuth, pos, packer, "", FALSE, << >>)

EOFError(pos, packer) ==
    Outcome("eof", ReturnNone, 0, 0, NullAuth, NullAuth, pos, packer, "", FALSE, << >>)

\* mutant of echo_xid: the reply starts with a constant instead of the xid read
echo_xid_constant(xid) == pack_uint(0)

\* get_call_attrs line 131: the xid is echoed into the reply packer
echo_xid(xid) == pack_uint(xid)

\* mutant of is_call: the msg_type check is missing
is_call_unchecked(temp) == TRUE

\* get_call_attrs lines 133-135
is_call(temp) == temp = CALL

\* mutant of rpc_mismatch: only one of low and high is packed
rpc_mismatch_low_only(packer) ==
    packer \o pack_uint(MSG_DENIED) \o pack_uint(RPC_MISMATCH)
           \o pack_uint(RPCVERSION)

\* get_call_attrs lines 140-145: the reply to a call of another RPC version
rpc_mismatch(packer) ==
    packer \o pack_uint(MSG_DENIED) \o pack_uint(RPC_MISMATCH)
           \o pack_uint(RPCVERSION) \o pack_uint(RPCVERSION)

\* get_call_attrs lines 147-148
accept(packer) == packer \o pack_uint(MSG_ACCEPTED) \o pack_auth(NullAuth)

\* mutant of prog_unavail: the accept_stat of another check
prog_unavail_as_proc(packer) == packer \o pack_uint(PROC_UNAVAIL)

\* get_call_attrs lines 152-154
prog_unavail(packer) == packer \o pack_uint(PROG_UNAVAIL)

\* mutant of prog_mismatch: low and high report the version the caller asked for
prog_mismatch_requested(self, packer, vers) ==
    packer \o pack_uint(PROG_MISMATCH) \o pack_uint(vers) \o pack_uint(vers)

\* get_call_attrs lines 157-161
prog_mismatch(self, packer, vers) ==
    packer \o pack_uint(PROG_MISMATCH) \o pack_uint(self.vers) \o pack_uint(self.vers)

\* mutant of get_call_attrs: the program number is compared before the RPC
\* version
get_call_attrs_prog_first(self, buf) ==
    LET u_xid == unpack_uint(buf, 0)
        u_type == unpack_enum(buf, 4)
        u_rpcvers == unpack_uint(buf, 8)
        u_prog == unpack_uint(buf, 12)
        u_vers == unpack_uint(buf, 16)
        u_call_id == unpack_uint(buf, 20)
        u_auth == unpack_auth(buf, 24)
        u_verf == unpack_auth(buf, unpack_auth(buf, 24).pos)
        p1 == echo_xid(unpack_uint(buf, 0).val)
        p2 == echo_xid(unpack_uint(buf, 0).val) \o pack_uint(REPLY)
        p3 == accept(echo_xid(unpack_uint(buf, 0).val) \o pack_uint(REPLY))
    IN
    IF ~u_xid.ok THEN EOFError(4, << >>) ELSE
    IF ~u_type.ok THEN EOFError(8, p1) ELSE
    IF ~is_call(u_type.val) THEN HeaderError(ReturnNone, 8, p1) ELSE
    IF ~u_rpcvers.ok THEN EOFError(12, p2) ELSE
    IF ~u_prog.ok THEN EOFError(16, p3) ELSE
    IF u_prog.val # self.prog
    THEN HeaderError(ReturnBytes(prog_unavail(p3)), 16, prog_unavail(p3)) ELSE
    IF u_rpcvers.val # RPCVERSION
    THEN HeaderError(ReturnBytes(rpc_mismatch(p2)), 12, rpc_mismatch(p2)) ELSE
    IF ~u_vers.ok THEN EOFError(20, p3) ELSE
    IF u_vers.val # self.vers
    THEN HeaderError(ReturnBytes(prog_mismatch(self, p3, u_vers.val)), 20,
                     prog_mismatch(self, p3, u_vers.val)) ELSE
    IF ~u_call_id.ok THEN EOFError(24, p3) ELSE
    IF ~u_auth.ok THEN EOFError(u_auth.pos, p3) ELSE
    IF ~u_verf.ok THEN EOFError(u_verf.pos, p3) ELSE
    Outcome("ok", ReturnNone, u_xid.val, u_call_id.val, u_auth.val, u_verf.val,
            u_verf.pos, p3, "", FALSE, << >>)

\* Server.get_call_attrs(packer, unpacker), packer empty and unpacker at 0.
\* Every read of the fixed part of the header moves the position by 4, so
\* xid, msg_type, rpcvers, prog, vers and call_id are read at 0, 4, 8, 12, 16
\* and 20, and cred at 24.
get_call_attrs(self, buf) ==
    LET u_xid == unpack_uint(buf, 0)
        u_type == unpack_enum(buf, 4)
        u_rpcvers == unpack_uint(buf, 8)
        u_prog == unpack_uint(buf, 12)
        u_vers == unpack_uint(buf, 16)
        u_call_id == unpack_uint(buf, 20)
        u_auth == unpack_auth(buf, 24)
        u_verf == unpack_auth(buf, unpack_auth(buf, 24).pos)
        p1 == echo_xid(unpack_uint(buf, 0).val)
        p2 == echo_xid(unpack_uint(buf, 0).val) \o pack_uint(REPLY)
        p3 == accept(echo_xid(unpack_uint(buf, 0).val) \o pack_uint(REPLY))
    IN
    IF ~u_xid.ok THEN EOFError(4, << >>) ELSE
    IF ~u_type.ok THEN EOFError(8, p1) ELSE
    IF ~is_call(u_type.val) THEN HeaderError(ReturnNone, 8, p1) ELSE
    IF ~u_rpcvers.ok THEN EOFError(12, p2) ELSE
    IF u_rpcvers.val # RPCVERSION
    THEN HeaderError(ReturnBytes(rpc_mismatch(p2)), 12, rpc_mismatch(p2)) ELSE
    IF ~u_prog.ok THEN EOFError(16, p3) ELSE
    IF u_prog.val # self.prog
    THEN HeaderError(ReturnBytes(prog_unavail(p3)), 16, prog_unavail(p3)) ELSE
    IF ~u_vers.ok THEN EOFError(20, p3) ELSE
    IF u_vers.val # self.vers
    THEN HeaderError(ReturnBytes(prog_mismatch(self, p3, u_vers.val)), 20,
                     prog_mismatch(self, p3, u_vers.val)) ELSE
    IF ~u_call_id.ok THEN EOFError(24, p3) ELSE
    IF ~u_auth.ok THEN EOFError(u_auth.pos, p3) ELSE
    IF ~u_verf.ok THEN EOFError(u_verf.pos, p3) ELSE
    Outcome("ok", ReturnNone, u_xid.val, u_call_id.val, u_auth.val, u_verf.val,
            u_verf.pos, p3, "", FALSE, << >>)

\* Exception classes that "except RuntimeError" catches
IsRuntimeError(e) == e \in {"RuntimeError", "NotImplementedError", "RecursionError"}

\* Unpacker.done() raises xdrlib.Error('unextracted data remains'); "" = returns
done_raises(buf, pos) == IF done(buf, pos) THEN "" ELSE "xdrlib.Error"

\* Server.turn_around(packer, unpacker): the handler of procedure 0
turn_around(packer, buf, pos) ==
    LET e == done_raises(buf, pos) IN
    IF e = "" THEN [kind |-> "ok", packer |-> packer, pos |-> pos, exc |-> ""]
    ELSE IF IsRuntimeError(e)
         THEN [kind |-> "garbage", packer |-> packer, pos |-> pos, exc |-> "RPCGarbageArgs"]
         ELSE [kind |-> "error", packer |-> packer, pos |-> pos, exc |-> e]

\* A handler built by @rpc_server_obtain(RpcInt) @rpc_server_return(RpcInt)
\* around a function returning its argument: the wrapper of rpc_server_obtain
\* unpacks one RpcInt, the wrapper of rpc_server_return packs the result.
rpc_server_obtain(packer, buf, pos) ==
    LET rpc_arg == unpack_int(buf, pos) IN
    IF ~rpc_arg.ok
    THEN [kind |-> "eof", packer |-> packer, pos |-> rpc_arg.pos, exc |-> "EOFError"]
    ELSE [kind |-> "ok", packer |-> packer \o pack_int(rpc_arg.val),
          pos |-> rpc_arg.pos, exc |-> ""]

\* A handler written by hand and registered with add_method: it packs a
\* first result, then reads an int from the call and packs it
\*   def handler(self, packer, unpacker):
\*       packer.pack_int(7); packer.pack_int(unpacker.unpack_int())
pack_then_unpack(packer, buf, pos) ==
    LET rpc_arg == unpack_int(buf, pos) IN
    IF ~rpc_arg.ok
    THEN [kind |-> "eof", packer |-> packer \o pack_int(7), pos |-> rpc_arg.pos,
          exc |-> "EOFError"]
    ELSE [kind |-> "ok", packer |-> packer \o pack_int(7) \o pack_int(rpc_arg.val),
          pos |-> rpc_arg.pos, exc |-> ""]

\* Server.method_map after construction of the modelled server: procedure 0
\* is turn_around (Server.__init__), procedure 1 the typed handler, the
\* procedure after it the handler written by hand
ProcNull == 0
ProcEcho == 1
method_map ==
    (ProcNull :> "turn_around") @@ (ProcEcho :> "rpc_server_obtain")
      @@ (ProcEcho + 1 :> "pack_then_unpack")

\* method(packer, unpacker)
invoke(method, packer, buf, pos) ==
    IF method = "turn_around" THEN turn_around(packer, buf, pos)
    ELSE IF method = "pack_then_unpack" THEN pack_then_unpack(packer, buf, pos)
    ELSE rpc_server_obtain(packer, buf, pos)

\* process_call line 189 / 475
proc_unavail(packer) == packer \o pack_uint(PROC_UNAVAIL)

\* mutant of success: the handler runs before SUCCESS is packed
success_missing(packer) == packer

\* process_call line 192 / 478
success(packer) == packer \o pack_uint(SUCCESS)

\* Server.process_call
process_call(self, xid, call_id, auth, verf, packer, buf, pos) ==
    IF call_id \notin DOMAIN method_map
    THEN HeaderError(ReturnBytes(proc_unavail(packer)), pos, proc_unavail(packer))
    ELSE LET m == invoke(method_map[call_id], success(packer), buf, pos) IN
         Outcome(m.kind, ReturnNone, xid, call_id, auth, verf, m.pos, m.packer,
                 m.exc, TRUE, success(packer))

\* AsyncTCPServer.process_call: a handler that is a coroutine function is
\* awaited (line 481), any other is called (line 484); either way it runs the
\* same statements on the packer and the unpacker
async_process_call(self, xid, call_id, auth, verf, packer, buf, pos) ==
    IF call_id \notin DOMAIN method_map
    THEN HeaderError(ReturnBytes(proc_unavail(packer)), pos, proc_unavail(packer))
    ELSE LET m == invoke(method_map[call_id], success(packer), buf, pos) IN
         Outcome(m.kind, ReturnNone, xid, call_id, auth, verf, m.pos, m.packer,
                 m.exc, TRUE, success(packer))

\* handle lines 219-224 / 444-449: the reply packed after EOFError or
\* RPCGarbageArgs
garbage_args(xid) ==
    pack_uint(xid) \o pack_uint(REPLY) \o pack_uint(MSG_ACCEPTED)
      \o pack_auth(NullAuth) \o pack_uint(GARBAGE_ARGS)

Hook(data, is_request) == [data |-> data, is_request |-> is_request]

\* mutant of packer_reset: the packer keeps what was packed
packer_reset_missing(packer) == packer

\* handle line 219 / 444: packer.reset()
packer_reset(packer) == << >>

\* What one run of handle did: its return (ret), the hook invocations, whether
\* a registered handler ran, the packer at the handler's entry and the
\* unpacker position at the end.
Handled(r, hooks, invoked, entry, pos, packer) ==
    [ret |-> r, hooks |-> hooks, invoked |-> invoked, entry |-> entry,
     pos |-> pos, packer |-> packer]

\* handle lines 214-228 / 439-453, the except clauses and the end of handle:
\* what handle does with the outcome p of process_call
after_process_call(callbytes, xid, p) ==
    CASE p.kind = "header" ->
           Handled(p.response, <<Hook(callbytes, TRUE)>>, FALSE, << >>, p.pos, p.packer)
      [] p.kind \in {"eof", "garbage"} ->
           Handled(ReturnBytes(packer_reset(p.packer) \o garbage_args(xid)),
                   <<Hook(callbytes, TRUE),
                     Hook(packer_reset(p.packer) \o garbage_args(xid), FALSE)>>,
                   TRUE, p.entry, p.pos, packer_reset(p.packer) \o garbage_args(xid))
      [] p.kind = "error" ->
           Handled(Raises(p.exc), <<Hook(callbytes, TRUE)>>, TRUE, p.entry, p.pos,
                   p.packer)
      [] OTHER ->
           Handled(ReturnBytes(p.packer),
                   <<Hook(callbytes, TRUE), Hook(p.packer, FALSE)>>,
                   TRUE, p.entry, p.pos, p.packer)

\* handle line 212 / 437: self.process_call of the server's class
dispatch(self, a, callbytes) ==
    IF self.kind = "AsyncTCPServer"
    THEN async_process_call(self, a.xid, a.call_id, a.auth, a.verf, a.packer,
                            callbytes, a.pos)
    ELSE process_call(self, a.xid, a.call_id, a.auth, a.verf, a.packer,
                      callbytes, a.pos)

\* handle lines 210-224 / 435-449: what handle does with the outcome a of
\* get_call_attrs
after_get_call_attrs(self, callbytes, a) ==
    IF a.kind = "header"
    THEN Handled(a.response, <<Hook(callbytes, TRUE)>>, FALSE, << >>, a.pos, a.packer)
    ELSE IF a.kind = "eof"
    \* the handler of EOFError reads the local xid, which is bound only when
    \* get_call_attrs returned
    THEN Handled(Raises("UnboundLocalError"), <<Hook(callbytes, TRUE)>>, FALSE,
                 << >>, a.pos, << >>)
    ELSE after_process_call(callbytes, a.xid, dispatch(self, a, callbytes))

\* Server.handle(call) and AsyncTCPServer.handle(call)
handle(self, callbytes) ==
    after_get_call_attrs(self, callbytes, get_call_attrs(self, callbytes))

----------------------------------------------------------------------------
(* Inputs of Server.handle *)

\* The servers under consideration, after construction (Server.__init__,
\* TCPServer.__init__, UDPServer.__init__)
Servers ==
    { [kind |-> "TCPServer", prog |-> 1337, vers |-> 2, prot |-> IPPROTO_TCP],
      [kind |-> "AsyncTCPServer", prog |-> 100000, vers |-> 2, prot |-> IPPROTO_TCP],
      [kind |-> "UDPServer", prog |-> 1337, vers |-> 3, prot |-> IPPROTO_UDP] }

Xids == {9, 2147483647}
MsgTypes == {CALL, REPLY}
RpcVersions == {RPCVERSION, RPCVERSION + 1}
Progs(self) == {self.prog, 9999}
Versions(self) == {self.vers, self.vers + 1}
Procs == {ProcNull, ProcEcho, 5}
Creds == {NullAuth, [flavor |-> AUTH_UNIX, stuff |-> <<7, 7>>]}
ArgValues == {5, -3}

\* argument tails: n packed ints
RECURSIVE ArgTails(_)
ArgTails(n) ==
    IF n = 0 THEN {<< >>}
    ELSE {t \o pack_int(v) : t \in ArgTails(n - 1), v \in ArgValues}

AllArgTails == UNION {ArgTails(n) : n \in 0..MaxArgWords}

\* a message laid out like a call, with any msg_type and rpcvers
Message(xid, mtype, rpcvers, prog, vers, proc, cred, verf, args) ==
    pack_uint(xid) \o pack_enum(mtype) \o pack_uint(rpcvers) \o pack_uint(prog)
      \o pack_uint(vers) \o pack_uint(proc) \o pack_auth(cred) \o pack_auth(verf)
      \o args

Prefixes(b) == {SubSeq(b, 1, n) : n \in 0..Len(b)}

Messages(self) ==
    {Message(xid, mtype, rpcvers, prog, vers, proc, cred, NullAuth, args) :
        xid \in Xids, mtype \in MsgTypes, rpcvers \in RpcVersions,
        prog \in Progs(self), vers \in Versions(self), proc \in Procs,
        cred \in Creds, args \in AllArgTails}

\* calls of the handler written by hand, without and with its argument
HandWrittenCalls(self) ==
    {Message(9, CALL, RPCVERSION, self.prog, self.vers, ProcEcho + 1, NullAuth, NullAuth,
             args) : args \in {<< >>, pack_int(5)}}

\* every message, whole or cut at any byte
CallInputs(self) ==
    UNION {Prefixes(m) : m \in Messages(self) \cup HandWrittenCalls(self)}

NotHandled == Handled(ReturnNone, << >>, FALSE, << >>, 0, << >>)

NoCall == [xid |-> 0, prog |-> 0, vers |-> 0, proc |-> 0, packer |-> << >>,
           ubuf |-> << >>, upos |-> 0]

NoRet == [kind |-> "none", exc |-> ""]

\* Python's None for an optional value, and a value that is set
None == << >>
Some(x) == <<x>>

NoClient == [lastxid |-> 0, prog |-> 0, vers |-> 0, cred |-> None, verf |-> None]

\* no record is being framed, no do_call is in progress
NoFrag == [pc |-> "none"]
NoTCPClient == [pc |-> "none"]
NoUDPClient == [pc |-> "none"]
NoConns == [pc |-> "none"]
NoProxy == [pc |-> "none"]
NoReg == [pc |-> "none"]
NoXdr == [pc |-> "none"]

InitRest == conns = NoConns /\ pxy = NoProxy /\ reg = NoReg /\ xdr = NoXdr

----------------------------------------------------------------------------
(* Server.handle as a function of the call bytes *)

InitHandle ==
    /\ server \in Servers
    /\ call_in \in CallInputs(server)
    /\ hpc = "ready"
    /\ h = NotHandled
    /\ status = "listening"
    /\ rcvd = << >>
    /\ sent = << >>
    /\ client = NoClient
    /\ xids = << >>
    /\ call = NoCall
    /\ reply_in = << >>
    /\ ret = NoRet
    /\ frag = NoFrag
    /\ tcpc = NoTCPClient
    /\ udpc = NoUDPClient
    /\ InitRest

Handle ==
    /\ hpc = "ready"
    /\ h' = handle(server, call_in)
    /\ hpc' = "done"
    /\ UNCHANGED <<server, call_in, status, rcvd, sent, client, xids, call, reply_in, ret,
                   frag, tcpc, udpc,
                   rest>>

NextHandle == Handle

SpecHandle == InitHandle /\ [][NextHandle]_vars

----------------------------------------------------------------------------
(* Reading a message by its layout, independently of the unpacker: word k  *)
(* is the k-th 4-byte field, counted from 0.                               *)

HasWord(b, k) == Len(b) >= 4 * (k + 1)
Word(b, k) == SubSeq(b, 4 * k + 1, 4 * k + 4)

IsWord(b, k, v) == HasWord(b, k) /\ Word(b, k) = pack_uint(v)

\* the message has a msg_type field and it says CALL
TypeIsCall(b) == IsWord(b, 1, CALL)
\* the message has a msg_type field and it says something else
TypeIsNotCall(b) == HasWord(b, 1) /\ Word(b, 1) # pack_uint(CALL)

\* the header of the call is complete and passes every check of get_call_attrs
HeaderValid(self, b) == get_call_attrs(self, b).kind = "ok"
\* the call ends inside its header
HeaderTruncated(self, b) == get_call_attrs(self, b).kind = "eof"

ProcRegistered(b) == \E proc \in DOMAIN method_map : IsWord(b, 5, proc)

\* xid REPLY MSG_ACCEPTED verf=(AUTH_NULL, empty) accept_stat
AcceptedReply(b, stat) ==
    Word(b, 0) \o pack_uint(REPLY) \o pack_uint(MSG_ACCEPTED) \o pack_uint(0)
      \o pack_uint(0) \o pack_uint(stat)

----------------------------------------------------------------------------
(* Claims about Server.handle, checked under SpecHandle *)

\* C1: for every call whose processing fails validation (header cut at any
\* length, wrong rpcvers, wrong prog, wrong vers, unknown procedure) handle
\* returns a reply record and does not raise; it returns no bytes only for a
\* message whose msg_type is not CALL.
C1_HandleTotal ==
    hpc = "done" =>
      /\ (\/ HeaderTruncated(server, call_in)
          \/ get_call_attrs(server, call_in).kind = "header"
          \/ (HeaderValid(server, call_in) /\ ~ProcRegistered(call_in)))
         => (IF TypeIsNotCall(call_in) THEN h.ret.kind = "none"
                                       ELSE h.ret.kind = "reply")
      /\ h.ret.kind = "none" => TypeIsNotCall(call_in)

\* C2: every reply record handle returns starts with the xid of the call it
\* answers, followed by msg_type REPLY.
C2_XidEcho ==
    (hpc = "done" /\ h.ret.kind = "reply") =>
      /\ HasWord(call_in, 0)
      /\ HasWord(h.ret.bytes, 1)
      /\ Word(h.ret.bytes, 0) = Word(call_in, 0)
      /\ Word(h.ret.bytes, 1) = pack_uint(REPLY)

\* C2 witness: a GARBAGE_ARGS reply (the reply that is packed anew) to a call
\* with xid 2^31 - 1
C2_Witness ==
    /\ hpc = "done"
    /\ h.ret.kind = "reply"
    /\ IsWord(call_in, 0, 2147483647)
    /\ IsWord(h.ret.bytes, 5, GARBAGE_ARGS)

\* C3: a CALL whose rpcvers field is not 2 is answered with exactly xid, REPLY,
\* MSG_DENIED, RPC_MISMATCH, low = 2, high = 2, and no handler is invoked.
C3_RpcMismatch ==
    (hpc = "done" /\ TypeIsCall(call_in) /\ HasWord(call_in, 2)
       /\ Word(call_in, 2) # pack_uint(2)) =>
      /\ h.ret = ReturnBytes(Word(call_in, 0) \o pack_uint(REPLY)
                   \o pack_uint(MSG_DENIED) \o pack_uint(RPC_MISMATCH)
                   \o pack_uint(2) \o pack_uint(2))
      /\ ~h.invoked

C3_Witness ==
    /\ hpc = "done"
    /\ TypeIsCall(call_in)
    /\ IsWord(call_in, 2, 3)
    /\ IsWord(call_in, 5, ProcEcho)
    /\ h.ret.kind = "reply"
    /\ Len(h.ret.bytes) = 24

\* C4: a CALL with rpcvers 2 whose program number differs from the server's
\* is answered with exactly xid, REPLY, MSG_ACCEPTED, NULL verifier,
\* PROG_UNAVAIL, and no handler is invoked.
C4_ProgUnavail ==
    (hpc = "done" /\ TypeIsCall(call_in) /\ IsWord(call_in, 2, 2)
       /\ HasWord(call_in, 3) /\ Word(call_in, 3) # pack_uint(server.prog)) =>
      /\ h.ret = ReturnBytes(AcceptedReply(call_in, PROG_UNAVAIL))
      /\ ~h.invoked

C4_Witness ==
    /\ hpc = "done"
    /\ TypeIsCall(call_in)
    /\ IsWord(call_in, 2, 2)
    /\ IsWord(call_in, 3, 9999)
    /\ IsWord(call_in, 5, ProcEcho)
    /\ h.ret.kind = "reply"
    /\ IsWord(h.ret.bytes, 5, PROG_UNAVAIL)

\* C5: a CALL for the server's program with another version is answered with
\* MSG_ACCEPTED, NULL verifier, PROG_MISMATCH, then low and high both equal to
\* the server's own version, not the version the caller asked for.
C5_ProgMismatch ==
    (hpc = "done" /\ TypeIsCall(call_in) /\ IsWord(call_in, 2, 2)
       /\ IsWord(call_in, 3, server.prog)
       /\ HasWord(call_in, 4) /\ Word(call_in, 4) # pack_uint(server.vers)) =>
      /\ h.ret = ReturnBytes(AcceptedReply(call_in, PROG_MISMATCH)
                   \o pack_uint(server.vers) \o pack_uint(server.vers))
      /\ ~h.invoked

C5_Witness ==
    /\ hpc = "done"
    /\ server.vers = 3
    /\ TypeIsCall(call_in)
    /\ IsWord(call_in, 3, server.prog)
    /\ IsWord(call_in, 4, 4)
    /\ h.ret.kind = "reply"
    /\ IsWord(h.ret.bytes, 5, PROG_MISMATCH)
    /\ IsWord(h.ret.bytes, 6, 3)
    /\ IsWord(h.ret.bytes, 7, 3)

\* C6: a header-valid CALL to a procedure without registry entry is answered
\* with MSG_ACCEPTED, NULL verifier, PROC_UNAVAIL and no handler runs; for a
\* CALL to a registered procedure the handler runs on a packer that holds the
\* reply header ending in SUCCESS, and a SUCCESS reply is that header followed
\* by what the handler packed.
C6_Dispatch ==
    (hpc = "done" /\ HeaderValid(server, call_in)) =>
      IF ProcRegistered(call_in)
      THEN /\ h.invoked
           /\ h.entry = AcceptedReply(call_in, SUCCESS)
           /\ (h.ret.kind = "reply" /\ IsWord(h.ret.bytes, 5, SUCCESS))
                => /\ SubSeq(h.ret.bytes, 1, 24) = h.entry
                   /\ IsWord(call_in, 5, ProcEcho)
                        => SubSeq(h.ret.bytes, 25, Len(h.ret.bytes))
                             = SubSeq(call_in, h.pos - 3, h.pos)
      ELSE /\ h.ret = ReturnBytes(AcceptedReply(call_in, PROC_UNAVAIL))
           /\ ~h.invoked
           /\ h.entry = << >>

\* C6 witness: the cooperative server answered a call of the typed procedure
\* with SUCCESS and a result
C6_Witness ==
    /\ hpc = "done"
    /\ server.kind = "AsyncTCPServer"
    /\ HeaderValid(server, call_in)
    /\ IsWord(call_in, 5, ProcEcho)
    /\ h.invoked
    /\ h.ret.kind = "reply"
    /\ h.ret.bytes = AcceptedReply(call_in, SUCCESS) \o pack_int(-3)

\* C7: if a handler does not consume all argument bytes of a call (procedure 0
\* with a non-empty argument tail, a typed handler sent more bytes than its
\* declared arguments), the reply has accept_stat GARBAGE_ARGS and the xid of
\* the call.
C7_GarbageArgs ==
    (hpc = "done" /\ h.invoked /\ h.pos < Len(call_in)) =>
      h.ret = ReturnBytes(AcceptedReply(call_in, GARBAGE_ARGS))

\* C33: the header checks are applied in the order msg_type, rpcvers, prog,
\* vers, procedure lookup and the reply reports the first check that fails:
\* a message that is no CALL gets no reply whatever its rpcvers; rpcvers # 2
\* with an unknown prog gives RPC_MISMATCH; an unknown prog with a wrong vers
\* gives PROG_UNAVAIL; a wrong vers with an unregistered procedure gives
\* PROG_MISMATCH.
C33_CheckOrder ==
    hpc = "done" =>
      /\ (TypeIsNotCall(call_in) /\ HasWord(call_in, 2)
             /\ Word(call_in, 2) # pack_uint(RPCVERSION)) =>
           h.ret.kind = "none"
      /\ (TypeIsCall(call_in) /\ HasWord(call_in, 3)
             /\ Word(call_in, 2) # pack_uint(RPCVERSION)
             /\ Word(call_in, 3) # pack_uint(server.prog)) =>
           h.ret = ReturnBytes(Word(call_in, 0) \o pack_uint(REPLY)
                     \o pack_uint(MSG_DENIED) \o pack_uint(RPC_MISMATCH)
                     \o pack_uint(RPCVERSION) \o pack_uint(RPCVERSION))
      /\ (TypeIsCall(call_in) /\ IsWord(call_in, 2, RPCVERSION) /\ HasWord(call_in, 4)
             /\ Word(call_in, 3) # pack_uint(server.prog)
             /\ Word(call_in, 4) # pack_uint(server.vers)) =>
           h.ret = ReturnBytes(AcceptedReply(call_in, PROG_UNAVAIL))
      /\ (TypeIsCall(call_in) /\ IsWord(call_in, 2, RPCVERSION)
             /\ IsWord(call_in, 3, server.prog) /\ HasWord(call_in, 5)
             /\ Word(call_in, 4) # pack_uint(server.vers)
             /\ ~ProcRegistered(call_in)) =>
           h.ret = ReturnBytes(AcceptedReply(call_in, PROG_MISMATCH)
                     \o pack_uint(server.vers) \o pack_uint(server.vers))

\* C33 witness: a whole call with rpcvers 3 for program 9999, answered with
\* RPC_MISMATCH
C33_Witness ==
    /\ hpc = "done"
    /\ TypeIsCall(call_in)
    /\ IsWord(call_in, 2, RPCVERSION + 1)
    /\ IsWord(call_in, 3, 9999)
    /\ HasWord(call_in, 9)
    /\ IsWord(h.ret.bytes, 2, MSG_DENIED)
    /\ IsWord(h.ret.bytes, 3, RPC_MISMATCH)

\* C34: when a handler reads beyond the end of the call, handle returns
\* exactly xid, REPLY, MSG_ACCEPTED, NULL verifier, GARBAGE_ARGS: the reply
\* holds neither the SUCCESS packed before the handler ran nor what the
\* handler packed before it failed.
C34_GarbageReplyOnly ==
    (hpc = "done" /\ h.invoked /\ h.pos > Len(call_in)) =>
      h.ret = ReturnBytes(AcceptedReply(call_in, GARBAGE_ARGS))

\* C34 witness: the handler written by hand packed its first result on top
\* of the SUCCESS header and found no argument to read
C34_Witness ==
    /\ hpc = "done"
    /\ HeaderValid(server, call_in)
    /\ IsWord(call_in, 5, ProcEcho + 1)
    /\ h.invoked
    /\ h.entry = AcceptedReply(call_in, SUCCESS)
    /\ h.pos > Len(call_in)
    /\ h.ret.kind = "reply"
    /\ Len(h.ret.bytes) = 24
    /\ IsWord(h.ret.bytes, 5, GARBAGE_ARGS)

----------------------------------------------------------------------------
(* The transport loops: TCPServer.listen / handle_call,                    *)
(* AsyncTCPServer.handle_call (one connection), UDPServer.listen /         *)
(* handle_call.  One action is one pass of the loop body: receive a        *)
(* record, handle it, send the reply if there is one.                      *)

\* records and datagrams that arrive at the server
Arrivals(self) ==
    UNION { { Message(xid, CALL, RPCVERSION, self.prog, self.vers, ProcNull,
                      NullAuth, NullAuth, << >>),
              Message(xid, REPLY, RPCVERSION, self.prog, self.vers, ProcNull,
                      NullAuth, NullAuth, << >>),
              pack_uint(xid) \o pack_enum(REPLY) \o pack_uint(MSG_ACCEPTED)
                \o pack_auth(NullAuth) \o pack_uint(SUCCESS) \o pack_int(5),
              pack_uint(xid) \o pack_enum(REPLY) } : xid \in Xids }
    \cup
    { Message(9, CALL, RPCVERSION, self.prog, self.vers, ProcEcho,
              NullAuth, NullAuth, pack_int(5)),
      Message(9, CALL, RPCVERSION + 1, self.prog, self.vers, ProcEcho,
              NullAuth, NullAuth, pack_int(5)),
      Message(9, CALL, RPCVERSION, self.prog, self.vers, 5,
              NullAuth, NullAuth, << >>),
      Message(9, CALL, RPCVERSION, self.prog, self.vers, ProcNull,
              NullAuth, NullAuth, pack_int(5)),
      pack_uint(9) \o pack_enum(CALL) \o pack_uint(RPCVERSION),
      pack_uint(9) }

\* handle_call lines 354-355 / 417-418 / 549-550: "if reply is not None"
reply_is_sent(r) == r.kind = "reply"

\* what the transport holds after the loop body dealt with handle's return
transmit(out, r) == IF reply_is_sent(r) THEN Append(out, r.bytes) ELSE out

Init ==
    /\ server \in Servers
    /\ status = "listening"
    /\ hpc = "loop"
    /\ call_in = << >>
    /\ h = NotHandled
    /\ rcvd = << >>
    /\ sent = << >>
    /\ client = NoClient
    /\ xids = << >>
    /\ call = NoCall
    /\ reply_in = << >>
    /\ ret = NoRet
    /\ frag = NoFrag
    /\ tcpc = NoTCPClient
    /\ udpc = NoUDPClient
    /\ InitRest

\* TCPServer.listen line 327: a connection is accepted
Accept ==
    /\ server.kind \in {"TCPServer", "AsyncTCPServer"}
    /\ status = "listening"
    /\ status' = "connected"
    /\ UNCHANGED <<server, hpc, call_in, h, rcvd, sent, client, xids, call,
                   reply_in, ret,
                   frag, tcpc, udpc,
                   rest>>

\* TCPServer.handle_call, one record.  An exception of handle is caught
\* neither here nor in listen: it ends the server.
TCPServer_handle_call(record) ==
    /\ server.kind = "TCPServer"
    /\ status = "connected"
    /\ Len(rcvd) < MaxRecords
    /\ rcvd' = Append(rcvd, record)
    /\ call_in' = record
    /\ h' = handle(server, record)
    /\ sent' = transmit(sent, h'.ret)
    /\ status' = IF h'.ret.kind = "raise" THEN "dead" ELSE "connected"
    /\ UNCHANGED <<server, hpc, client, xids, call, reply_in, ret,
                   frag, tcpc, udpc,
                   rest>>

\* AsyncTCPServer.handle_call, one record.  An exception of handle ends the
\* task of this connection; the server keeps accepting.
AsyncTCPServer_handle_call(record) ==
    /\ server.kind = "AsyncTCPServer"
    /\ status = "connected"
    /\ Len(rcvd) < MaxRecords
    /\ rcvd' = Append(rcvd, record)
    /\ call_in' = record
    /\ h' = handle(server, record)
    /\ sent' = transmit(sent, h'.ret)
    /\ status' = IF h'.ret.kind = "raise" THEN "listening" ELSE "connected"
    /\ UNCHANGED <<server, hpc, client, xids, call, reply_in, ret,
                   frag, tcpc, udpc,
                   rest>>

\* handle_call lines 345-346 / 408-409: recvrecord raises EOFError, the loop
\* of this connection is left
EndOfStream ==
    /\ server.kind \in {"TCPServer", "AsyncTCPServer"}
    /\ status = "connected"
    /\ status' = "listening"
    /\ UNCHANGED <<server, hpc, call_in, h, rcvd, sent, client, xids, call,
                   reply_in, ret,
                   frag, tcpc, udpc,
                   rest>>

\* UDPServer.handle_call, one datagram.  An exception of handle leaves
\* handle_call and listen.
UDPServer_handle_call(datagram) ==
    /\ server.kind = "UDPServer"
    /\ status = "listening"
    /\ Len(rcvd) < MaxRecords
    /\ rcvd' = Append(rcvd, datagram)
    /\ call_in' = datagram
    /\ h' = handle(server, datagram)
    /\ sent' = transmit(sent, h'.ret)
    /\ status' = IF h'.ret.kind = "raise" THEN "dead" ELSE "listening"
    /\ UNCHANGED <<server, hpc, client, xids, call, reply_in, ret,
                   frag, tcpc, udpc,
                   rest>>

Next ==
    \/ Accept
    \/ EndOfStream
    \/ \E record \in Arrivals(server) : TCPServer_handle_call(record)
    \/ \E record \in Arrivals(server) : AsyncTCPServer_handle_call(record)
    \/ \E datagram \in Arrivals(server) : UDPServer_handle_call(datagram)

Spec == Init /\ [][Next]_vars

\* C8: a received message whose msg_type is not CALL is dropped silently: the
\* pass of the loop that receives it sends nothing on the transport, stream
\* or datagram, and the server stays in its loop, ready for the next record
\* or datagram.
C8_DropNonCall ==
    [][(rcvd' # rcvd /\ TypeIsNotCall(call_in'))
         => (sent' = sent /\ status' = status /\ status' # "dead")]_vars

\* C8 witness: the first message was not a CALL, nothing was sent for it, and
\* the next one, a call, was answered
C8_Witness ==
    /\ Len(rcvd) = 2
    /\ TypeIsNotCall(rcvd[1])
    /\ TypeIsCall(rcvd[2])
    /\ sent = <<AcceptedReply(rcvd[2], SUCCESS)>>
    /\ status # "dead"

----------------------------------------------------------------------------
(* Client side: client.py (Client.make_call), sunrpc.py (Call,             *)
(* Unpacker.unpack_replyheader)                                            *)

\* outcome of unpack_replyheader: returned (xid, verf), or raised exc
Returned(xid, verf, pos) ==
    [kind |-> "ok", exc |-> "", xid |-> xid, verf |-> verf, pos |-> pos]
Raised(exc, pos) ==
    [kind |-> "raise", exc |-> exc, xid |-> 0, verf |-> NullAuth, pos |-> pos]

\* Unpacker.process_message_type(stat) with the unpacker at pos: returns, or
\* raises
process_message_type(buf, pos, stat) ==
    IF stat = MSG_DENIED
    THEN IF ~unpack_enum(buf, pos).ok THEN Raised("EOFError", pos + 4) ELSE
         IF unpack_enum(buf, pos).val = RPC_MISMATCH
         THEN IF ~unpack_uint(buf, pos + 4).ok THEN Raised("EOFError", pos + 8) ELSE
              IF ~unpack_uint(buf, pos + 8).ok THEN Raised("EOFError", pos + 12)
              ELSE Raised("RPCUnpackError", pos + 12)
         ELSE IF unpack_enum(buf, pos).val = AUTH_ERROR
         THEN IF ~unpack_uint(buf, pos + 4).ok THEN Raised("EOFError", pos + 8)
              ELSE Raised("RPCUnpackError", pos + 8)
         ELSE Raised("RPCUnpackError", pos + 4)
    ELSE IF stat # MSG_ACCEPTED THEN Raised("RPCUnpackError", pos)
    ELSE Returned(0, NullAuth, pos)

\* mutant of process_result_type: an accept status other than SUCCESS is let
\* through
process_result_type_lenient(buf, pos, stat) == Returned(0, NullAuth, pos)

\* Unpacker.process_result_type(stat) with the unpacker at pos: raises for
\* every stat
process_result_type(buf, pos, stat) ==
    IF stat = PROG_UNAVAIL THEN Raised("RPCUnpackError", pos)
    ELSE IF stat = PROG_MISMATCH
    THEN IF ~unpack_uint(buf, pos).ok THEN Raised("EOFError", pos + 4) ELSE
         IF ~unpack_uint(buf, pos + 4).ok THEN Raised("EOFError", pos + 8)
         ELSE Raised("RPCUnpackError", pos + 8)
    ELSE IF stat = GARBAGE_ARGS THEN Raised("RPCGarbageArgs", pos)
    ELSE Raised("RPCUnpackError", pos)

\* Unpacker.unpack_replyheader, from position 0: xid, mtype and the reply stat
\* are read at 0, 4 and 8; an accepted reply has its verifier at 12
unpack_replyheader(buf) ==
    LET u_xid == unpack_uint(buf, 0)
        mtype == unpack_enum(buf, 4)
        stat == unpack_enum(buf, 8)
        m == process_message_type(buf, 12, unpack_enum(buf, 8).val)
        verf == unpack_auth(buf, 12)
        astat == unpack_enum(buf, unpack_auth(buf, 12).pos)
    IN
    IF ~u_xid.ok THEN Raised("EOFError", 4) ELSE
    IF ~mtype.ok THEN Raised("EOFError", 8) ELSE
    IF mtype.val # REPLY THEN Raised("RPCUnpackError", 8) ELSE
    IF ~stat.ok THEN Raised("EOFError", 12) ELSE
    IF m.kind = "raise" THEN m ELSE
    IF ~verf.ok THEN Raised("EOFError", verf.pos) ELSE
    IF ~astat.ok THEN Raised("EOFError", astat.pos) ELSE
    IF astat.val = SUCCESS THEN Returned(u_xid.val, verf.val, astat.pos)
    ELSE process_result_type(buf, astat.pos, astat.val)

\* "cred if cred else (AUTH_NULL, make_auth_null())"
auth_or_null(a) == IF a = None THEN NullAuth ELSE a[1]

\* Call.__init__: the packer is seeded with the call header, the unpacker is
\* empty
Call(xid, prog, vers, proc, cred, verf) ==
    [xid |-> xid, prog |-> prog, vers |-> vers, proc |-> proc,
     packer |-> pack_callheader(xid, prog, vers, proc, auth_or_null(cred),
                                auth_or_null(verf)),
     ubuf |-> << >>, upos |-> 0]

\* mutant of next_xid: an xid is skipped
next_xid_skip(lastxid) == lastxid + 2

\* Client.make_call line 55
next_xid(lastxid) == lastxid + 1

\* Call.set_reply(reply): the Call afterwards and the outcome
set_reply(c, reply) ==
    LET r == unpack_replyheader(reply) IN
    IF r.kind = "raise"
    THEN [call |-> [c EXCEPT !.ubuf = reply, !.upos = r.pos],
          ret |-> [kind |-> "raise", exc |-> r.exc]]
    ELSE IF r.xid = c.xid
    THEN [call |-> [c EXCEPT !.ubuf = reply, !.upos = r.pos],
          ret |-> [kind |-> "true", exc |-> ""]]
    ELSE [call |-> [c EXCEPT !.ubuf = << >>, !.upos = 0],
          ret |-> [kind |-> "false", exc |-> ""]]

\* the clients under consideration, after construction (Client.__init__)
Clients == { [lastxid |-> 0, prog |-> 1337, vers |-> 2, cred |-> None, verf |-> None] }

ReplyXids == {1, 2, 2147483647}

\* result payloads: n packed ints
RECURSIVE Results(_)
Results(n) ==
    IF n = 0 THEN {<< >>} ELSE {t \o pack_int(42) : t \in Results(n - 1)}

AllResults == UNION {Results(n) : n \in 0..MaxResultWords}

ReplyHead(xid) == pack_uint(xid) \o pack_enum(REPLY)

\* replies as a server lays them out: accepted with SUCCESS and a result,
\* accepted with an error, denied
WellFormedReplies ==
    UNION { { ReplyHead(xid) \o pack_enum(MSG_ACCEPTED) \o pack_auth(NullAuth)
                \o pack_enum(SUCCESS) \o res : res \in AllResults }
            \cup
            { ReplyHead(xid) \o pack_enum(MSG_ACCEPTED) \o pack_auth(NullAuth)
                \o pack_enum(stat) : stat \in {PROG_UNAVAIL, PROC_UNAVAIL, GARBAGE_ARGS} }
            \cup
            { ReplyHead(xid) \o pack_enum(MSG_ACCEPTED) \o pack_auth(NullAuth)
                \o pack_enum(PROG_MISMATCH) \o pack_uint(2) \o pack_uint(2),
              ReplyHead(xid) \o pack_enum(MSG_DENIED) \o pack_enum(RPC_MISMATCH)
                \o pack_uint(2) \o pack_uint(2),
              ReplyHead(xid) \o pack_enum(MSG_DENIED) \o pack_enum(AUTH_ERROR)
                \o pack_uint(1) } : xid \in ReplyXids }

\* replies with a field out of range
MalformedReplies ==
    UNION { { pack_uint(xid) \o pack_enum(CALL) \o pack_uint(RPCVERSION),
              ReplyHead(xid) \o pack_enum(2),
              ReplyHead(xid) \o pack_enum(MSG_DENIED) \o pack_enum(7),
              ReplyHead(xid) \o pack_enum(MSG_ACCEPTED) \o pack_auth(NullAuth)
                \o pack_enum(5) } : xid \in ReplyXids }

\* every reply, whole or cut at any byte
ReplyInputs == UNION {Prefixes(r) : r \in WellFormedReplies \cup MalformedReplies}

InitClient ==
    /\ client \in Clients
    /\ xids = << >>
    /\ call = NoCall
    /\ reply_in = << >>
    /\ ret = NoRet
    /\ frag = NoFrag
    /\ tcpc = NoTCPClient
    /\ udpc = NoUDPClient
    /\ InitRest
    /\ server \in {s \in Servers : s.kind = "TCPServer"}
    /\ status = "listening"
    /\ hpc = "client"
    /\ call_in = << >>
    /\ h = NotHandled
    /\ rcvd = << >>
    /\ sent = << >>

\* Client.make_call(proc)
make_call(proc) ==
    /\ Len(xids) < MaxCalls
    /\ client' = [client EXCEPT !.lastxid = next_xid(client.lastxid)]
    /\ call' = Call(client'.lastxid, client.prog, client.vers, proc,
                    client.cred, client.verf)
    /\ xids' = Append(xids, call'.xid)
    /\ reply_in' = << >>
    /\ ret' = NoRet
    /\ UNCHANGED <<server, hpc, call_in, h, status, rcvd, sent,
                   frag, tcpc, udpc,
                   rest>>

\* Call.set_reply(reply) on the Call made last
SetReply(reply) ==
    /\ xids # << >>
    /\ reply_in' = reply
    /\ call' = set_reply(call, reply).call
    /\ ret' = set_reply(call, reply).ret
    /\ UNCHANGED <<server, hpc, call_in, h, status, rcvd, sent, client, xids,
                   frag, tcpc, udpc,
                   rest>>

NextClient ==
    \/ \E proc \in Procs : make_call(proc)
    \/ \E reply \in ReplyInputs : SetReply(reply)

SpecClient == InitClient /\ [][NextClient]_vars

\* C9: over any sequence of make_call invocations on one Client the first
\* Call has xid 1 and each following Call has the xid of the previous one
\* plus one; the xid is the one packed into the call header.
C9_XidMonotonic ==
    /\ \A i \in 1..Len(xids) :
         IF i = 1 THEN xids[i] = 1 ELSE xids[i] = xids[i - 1] + 1
    /\ xids # << >> =>
         /\ call.xid = xids[Len(xids)]
         /\ Word(call.packer, 0) = pack_uint(xids[Len(xids)])

C9_Witness == Len(xids) = 3 /\ xids = <<1, 2, 3>> /\ call.xid = 3

\* C10: for every reply whose xid differs from the Call's xid, whatever its
\* reply status (accepted SUCCESS, accepted error, denied), set_reply returns
\* false and leaves the Call's inbound cursor empty.
C10_ReplyCorrelation ==
    (ret.kind # "none" /\ reply_in \in WellFormedReplies
       /\ Word(reply_in, 0) # pack_uint(call.xid)) =>
      (ret.kind = "false" /\ call.ubuf = << >> /\ call.upos = 0)

----------------------------------------------------------------------------
(* Record-marked framing: utils.py.  sendfrag / sendrecord and their async *)
(* variants run the same statements on a StreamWriter; recvfrag /          *)
(* recvrecord and their async variants the same on a StreamReader.         *)

\* sunrpc.FRAGMENT_SIZE, the default frag_size
FRAGMENT_SIZE == 2147483647

\* struct.pack('>I', x) of x = len(frag), with 0x80000000 or'ed in when last
frag_header(last, n) ==
    <<(IF last THEN 128 ELSE 0) + n \div 16777216, (n \div 65536) % 256,
      (n \div 256) % 256, n % 256>>

\* sendfrag / async_sendfrag: the bytes of the one sendall / write
sendfrag(last, fragment) == frag_header(last, Len(fragment)) \o fragment

\* sendrecord / async_sendrecord: the writes made, in order
RECURSIVE sendrecord(_, _)
sendrecord(record, frag_size) ==
    IF Len(record) > 0
    THEN <<sendfrag(Len(record) <= frag_size, Slice(record, 0, frag_size))>>
           \o sendrecord(Slice(record, frag_size, Len(record)), frag_size)
    ELSE << >>

\* the byte stream made by a sequence of writes
RECURSIVE Flatten(_)
Flatten(writes) ==
    IF writes = << >> THEN << >> ELSE Head(writes) \o Flatten(Tail(writes))

\* outcomes of recvfrag and recvrecord: returned, raised EOFError(msg), or
\* blocked in recv on an open stream that has no more data
Received(last, data, pos) ==
    [kind |-> "ok", exc |-> "", msg |-> "", last |-> last, data |-> data, pos |-> pos]

RaisedEOF(msg, pos) ==
    [kind |-> "raise", exc |-> "EOFError", msg |-> msg, last |-> FALSE,
     data |-> << >>, pos |-> pos]

Blocked(pos) ==
    [kind |-> "block", exc |-> "", msg |-> "", last |-> FALSE, data |-> << >>,
     pos |-> pos]

\* recvfrag line 221 / async_recvfrag line 117
invalid_header == "RPC server send invalid response header."

\* mutant of incomplete_data: the payload error is the header error
incomplete_data_as_header == invalid_header

\* recvfrag line 233 / async_recvfrag line 129
incomplete_data == "RPC server send incomplete data"

\* recvfrag lines 223-236 with the 4 header bytes read: the payload loop ends
\* with size bytes, or with an empty recv when the stream was closed before
recvfrag_payload(stream, closed, pos, header) ==
    IF pos + 4 + ((header[1] % 128) * 16777216 + header[2] * 65536
                    + header[3] * 256 + header[4]) <= Len(stream)
    THEN Received(header[1] >= 128,
                  Slice(stream, pos + 4,
                        pos + 4 + ((header[1] % 128) * 16777216 + header[2] * 65536
                                     + header[3] * 256 + header[4])),
                  pos + 4 + ((header[1] % 128) * 16777216 + header[2] * 65536
                               + header[3] * 256 + header[4]))
    ELSE IF closed THEN RaisedEOF(incomplete_data, Len(stream))
    ELSE Blocked(Len(stream))

\* recvfrag / async_recvfrag at position pos of the inbound stream.  recv(4)
\* returns at most got bytes (1..4) of what has arrived; on a closed stream
\* with nothing left it returns no byte.
recvfrag(stream, closed, got, pos) ==
    IF pos >= Len(stream) /\ ~closed THEN Blocked(pos)
    ELSE IF Len(Slice(stream, pos, pos + got)) < 4
    THEN RaisedEOF(invalid_header, pos + Len(Slice(stream, pos, pos + got)))
    ELSE recvfrag_payload(stream, closed, pos, Slice(stream, pos, pos + 4))

\* recvrecord / async_recvrecord: "while not last" around recvfrag
RECURSIVE recvrecord_loop(_, _, _, _, _)
recvrecord_extend(stream, closed, got, record, f) ==
    IF f.kind # "ok" THEN f
    ELSE IF f.last THEN Received(TRUE, record \o f.data, f.pos)
    ELSE recvrecord_loop(stream, closed, got, f.pos, record \o f.data)

recvrecord_loop(stream, closed, got, pos, record) ==
    recvrecord_extend(stream, closed, got, record, recvfrag(stream, closed, got, pos))

recvrecord(stream, closed, got) == recvrecord_loop(stream, closed, got, 0, << >>)

----------------------------------------------------------------------------
(* TCPClient.do_call and AsyncTCPClient.do_call: client.py lines 121-136    *)
(* and 145-168.  One action sends the call, one action is one pass of the  *)
(* "while True" loop: recvrecord, then set_reply.                          *)

MaxReads == 3          \* records one do_call reads

\* what the server side writes for one reply: its fragment size
ReplyFragSizes == {FRAGMENT_SIZE, 16}

\* bytes the first recv(4) of a fragment header delivers
HeaderReads == {4, 3}

\* replies that arrive at a client
ClientReplies == WellFormedReplies \cup MalformedReplies

IdleTCPClient ==
    [pc |-> "idle", out |-> << >>, reads |-> << >>, rets |-> << >>, exc |-> ""]

InitTCPClient ==
    /\ client \in Clients
    /\ xids = << >>
    /\ call = NoCall
    /\ reply_in = << >>
    /\ ret = NoRet
    /\ tcpc = IdleTCPClient
    /\ server \in {s \in Servers : s.kind = "TCPServer"}
    /\ status = "listening"
    /\ hpc = "tcpclient"
    /\ call_in = << >>
    /\ h = NotHandled
    /\ rcvd = << >>
    /\ sent = << >>
    /\ frag = NoFrag
    /\ udpc = NoUDPClient
    /\ InitRest

\* the caller makes the Call that do_call is given
TCPClient_make_call(proc) ==
    /\ tcpc.pc = "idle"
    /\ make_call(proc)

\* do_call line 131 / 159: sendrecord(self.sock, call.bytes())
TCPClient_do_call_send ==
    /\ tcpc.pc = "idle"
    /\ xids # << >>
    /\ tcpc' = [tcpc EXCEPT !.pc = "recv",
                            !.out = sendrecord(call.packer, FRAGMENT_SIZE)]
    /\ UNCHANGED <<server, hpc, call_in, h, status, rcvd, sent, client, xids, call,
                   reply_in, ret, frag, udpc,
                   rest>>

\* mutant of accepted: do_call leaves the loop whenever set_reply returns
accepted_any(r) == r.kind \in {"true", "false"}

\* do_call line 135 / 164: "if call.set_reply(reply): break"
accepted(r) == r.kind = "true"

\* do_call line 135 / 164 with the outcome s of call.set_reply(reply): an
\* exception of set_reply leaves do_call
do_call_set_reply(t, reply, s) ==
    [call |-> s.call, ret |-> s.ret, reply |-> reply,
     tcpc |-> [t EXCEPT !.pc = IF s.ret.kind = "raise" THEN "raised"
                              ELSE IF accepted(s.ret) THEN "returned"
                              ELSE "recv",
                        !.exc = s.ret.exc,
                        !.reads = Append(t.reads, reply),
                        !.rets = Append(t.rets, s.ret.kind)]]

\* do_call lines 134-136 / 162-165 with the outcome f of recvrecord: an
\* EOFError of recvrecord leaves do_call
do_call_pass(c, t, f) ==
    IF f.kind = "raise"
    THEN [call |-> c, ret |-> NoRet, reply |-> << >>,
          tcpc |-> [t EXCEPT !.pc = "raised", !.exc = f.exc]]
    ELSE do_call_set_reply(t, f.data, set_reply(c, f.data))

\* do_call lines 133-136 / 161-165, one pass: the peer wrote reply with
\* sendrecord(reply, frag_size)
TCPClient_do_call_recv(reply, frag_size, got) ==
    /\ tcpc.pc = "recv"
    /\ Len(tcpc.reads) < MaxReads
    /\ \E f \in {recvrecord(Flatten(sendrecord(reply, frag_size)), FALSE, got)} :
         /\ f.kind # "block"
         /\ \E p \in {do_call_pass(call, tcpc, f)} :
              /\ tcpc' = p.tcpc
              /\ call' = p.call
              /\ ret' = p.ret
              /\ reply_in' = p.reply
    /\ UNCHANGED <<server, hpc, call_in, h, status, rcvd, sent, client, xids,
                   frag, udpc,
                   rest>>

\* do_call lines 133-134 / 161-162: the peer closed the connection, recvrecord
\* raises EOFError
TCPClient_do_call_eof ==
    /\ tcpc.pc = "recv"
    /\ tcpc' = do_call_pass(call, tcpc, recvrecord(<< >>, TRUE, 4)).tcpc
    /\ UNCHANGED <<server, hpc, call_in, h, status, rcvd, sent, client, xids, call,
                   reply_in, ret, frag, udpc,
                   rest>>

NextTCPClient ==
    \/ \E proc \in Procs : TCPClient_make_call(proc)
    \/ TCPClient_do_call_send
    \/ \E reply \in ClientReplies, frag_size \in ReplyFragSizes, got \in HeaderReads :
         TCPClient_do_call_recv(reply, frag_size, got)
    \/ TCPClient_do_call_eof

SpecTCPClient == InitTCPClient /\ [][NextTCPClient]_vars

\* the header of an accepted SUCCESS reply to xid with a null verifier
SuccessHead(xid) ==
    ReplyHead(xid) \o pack_enum(MSG_ACCEPTED) \o pack_auth(NullAuth)
      \o pack_enum(SUCCESS)

\* C11: when TCPClient.do_call has returned, the call went out as one record
\* (one fragment, marked last, holding the Call's bytes); the record read
\* last carries the Call's xid and every record read before it carried
\* another xid and was discarded (set_reply returned false); the Call's
\* inbound cursor stands right behind the reply header, at the first byte of
\* the result.
C11_TcpDoCall ==
    tcpc.pc = "returned" =>
      /\ tcpc.out = <<frag_header(TRUE, Len(call.packer)) \o call.packer>>
      /\ tcpc.reads # << >>
      /\ Word(tcpc.reads[Len(tcpc.reads)], 0) = pack_uint(call.xid)
      /\ \A i \in 1..(Len(tcpc.reads) - 1) :
           /\ Word(tcpc.reads[i], 0) # pack_uint(call.xid)
           /\ tcpc.rets[i] = "false"
      /\ call.ubuf = tcpc.reads[Len(tcpc.reads)]
      /\ SubSeq(call.ubuf, 1, call.upos) = SuccessHead(call.xid)
      /\ SubSeq(call.ubuf, call.upos + 1, Len(call.ubuf)) \in AllResults

\* C11 witness: do_call returned after two records with other xids were read
\* and discarded; the reply carries one result word
C11_Witness ==
    /\ tcpc.pc = "returned"
    /\ Len(tcpc.reads) = 3
    /\ tcpc.rets = <<"false", "false", "true">>
    /\ call.upos < Len(call.ubuf)

----------------------------------------------------------------------------
(* UDPClient: client.py lines 171-314.  connect, enable_broadcast,         *)
(* set_tunnel, and do_call as one action for the send and one action per   *)
(* pass of the "while 1" loop: select expires, or a datagram is received.  *)

MaxDatagrams == 2      \* datagrams one do_call receives

\* portmapper.py lines 9, 10 and 19
PMAP_PROG == 100000
PMAP_VERS == 2
PMAPPROC_CALLIT == 5

\* do_call lines 292-293
InitialCount == 5
InitialTimeout == 1

\* do_call line 306: "if timeout < 25"
TimeoutCap == 25

\* milliseconds after which select returns a readable socket, below the
\* shortest timeout
Delays == {500}

\* source addresses of received datagrams: the configured (host, port) or not
Sources == {"peer", "other"}

\* what a portmapper answers to CALLIT: (port, opaque result)
CallitReplies ==
    { SuccessHead(xid) \o pack_uint(2049) \o pack_opaque(res) :
        xid \in {1, 2}, res \in {pack_int(42)} }

DatagramReplies ==
    {r \in ClientReplies : Word(r, 0) \in {pack_uint(1), pack_uint(2)}}
      \cup CallitReplies

\* UDPClient.__init__: no socket, no tunnel, broadcast off
NewUDPClient ==
    [pc |-> "new", broadcast |-> FALSE, tunnel |-> FALSE, connected |-> FALSE,
     count |-> 0, timeout |-> 0, sends |-> << >>, windows |-> << >>,
     extra |-> 0, elapsed |-> 0, expired |-> 0, rets |-> << >>,
     srcs |-> << >>, exc |-> "", tcall |-> NoCall, port |-> 0, data |-> << >>]

InitUDPClient ==
    /\ client \in Clients
    /\ xids = << >>
    /\ call = NoCall
    /\ reply_in = << >>
    /\ ret = NoRet
    /\ udpc = NewUDPClient
    /\ server \in {s \in Servers : s.kind = "UDPServer"}
    /\ status = "listening"
    /\ hpc = "udpclient"
    /\ call_in = << >>
    /\ h = NotHandled
    /\ rcvd = << >>
    /\ sent = << >>
    /\ frag = NoFrag
    /\ tcpc = NoTCPClient
    /\ InitRest

\* UDPClient.enable_broadcast, before or after connect
UDPClient_enable_broadcast ==
    /\ udpc.pc \in {"new", "idle"}
    /\ ~udpc.broadcast
    /\ udpc' = [udpc EXCEPT !.broadcast = TRUE]
    /\ UNCHANGED <<server, hpc, call_in, h, status, rcvd, sent, client, xids, call,
                   reply_in, ret, frag, tcpc,
                   rest>>

\* UDPClient.set_tunnel: a UDP portmapper client becomes the tunnel
UDPClient_set_tunnel ==
    /\ udpc.pc = "new"
    /\ ~udpc.tunnel
    /\ udpc' = [udpc EXCEPT !.tunnel = TRUE]
    /\ UNCHANGED <<server, hpc, call_in, h, status, rcvd, sent, client, xids, call,
                   reply_in, ret, frag, tcpc,
                   rest>>

\* UDPClient.connect: without a tunnel the socket is connected unless
\* broadcast is on; with a tunnel, the tunnel is put in broadcast mode and
\* its connect leaves its socket unconnected.  connected is the state of
\* the socket do_call will use.
UDPClient_connect ==
    /\ udpc.pc = "new"
    /\ udpc' = [udpc EXCEPT !.pc = "idle",
                            !.connected = IF udpc.tunnel THEN FALSE
                                          ELSE ~udpc.broadcast]
    /\ UNCHANGED <<server, hpc, call_in, h, status, rcvd, sent, client, xids, call,
                   reply_in, ret, frag, tcpc,
                   rest>>

\* the caller makes the Call that do_call is given
UDPClient_make_call(proc) ==
    /\ udpc.pc = "idle"
    /\ make_call(proc)

\* self.broadcast of the client whose socket do_call uses: the tunnel's is on
\* after connect
sock_broadcast(u) == IF u.tunnel THEN TRUE ELSE u.broadcast

\* PortMapperClient.callit through rpc_client_send: the tunnel's first Call,
\* with prog, vers, proc as RpcInt and the Call's bytes as RpcBytes
callit(prog, vers, proc, bytes) ==
    [Call(next_xid(0), PMAP_PROG, PMAP_VERS, PMAPPROC_CALLIT, None, None)
       EXCEPT !.packer = @ \o pack_int(prog) \o pack_int(vers) \o pack_int(proc)
                           \o pack_opaque(bytes)]

\* the Call whose bytes go on the socket
wire_call(u, c) == IF u.tunnel THEN u.tcall ELSE c

\* one socket call: sendto gives the address, send needs a connected socket
Sendto(data) == [op |-> "sendto", data |-> data, err |-> ""]
Send(u, data) ==
    [op |-> "send", data |-> data, err |-> IF u.connected THEN "" ELSE "OSError"]

\* do_call lines 282-294: the first transmission
UDPClient_do_call_send ==
    /\ udpc.pc = "idle"
    /\ xids # << >>
    /\ \E t \in {IF udpc.tunnel
                 THEN callit(client.prog, client.vers, call.proc, call.packer)
                 ELSE NoCall} :
         udpc' = [udpc EXCEPT
                    !.pc = "wait",
                    !.tcall = t,
                    !.sends = <<IF sock_broadcast(udpc)
                                THEN Sendto(IF udpc.tunnel THEN t.packer ELSE call.packer)
                                ELSE Send(udpc, call.packer)>>,
                    !.count = InitialCount,
                    !.timeout = InitialTimeout,
                    !.windows = <<InitialTimeout>>,
                    !.elapsed = 0]
    /\ UNCHANGED <<server, hpc, call_in, h, status, rcvd, sent, client, xids, call,
                   reply_in, ret, frag, tcpc,
                   rest>>

\* do_call lines 306-307
next_timeout(timeout) == IF timeout < TimeoutCap THEN timeout * 2 ELSE timeout

\* do_call lines 300-310 with select returning no readable socket after
\* timeout seconds.  elapsed is the time since the last transmission at the
\* moment this select was called; the window that ends now lasted timeout
\* plus that much (extra).
do_call_expired(u, bytes) ==
    IF u.count - 1 < 0
    THEN [u EXCEPT !.pc = "raised", !.exc = "RPCError: timeout",
                   !.count = u.count - 1,
                   !.expired = u.expired + 1,
                   !.extra = u.elapsed]
    ELSE [u EXCEPT !.pc = IF Send(u, bytes).err = "" THEN "wait" ELSE "raised",
                   !.exc = Send(u, bytes).err,
                   !.count = u.count - 1,
                   !.timeout = next_timeout(u.timeout),
                   !.sends = Append(u.sends, Send(u, bytes)),
                   !.expired = u.expired + 1,
                   !.extra = u.elapsed,
                   !.windows = IF Send(u, bytes).err = ""
                               THEN Append(u.windows, next_timeout(u.timeout))
                               ELSE u.windows,
                   !.elapsed = 0]

UDPClient_do_call_timeout ==
    /\ udpc.pc = "wait"
    /\ udpc' = do_call_expired(udpc, wire_call(udpc, call).packer)
    /\ UNCHANGED <<server, hpc, call_in, h, status, rcvd, sent, client, xids, call,
                   reply_in, ret, frag, tcpc,
                   rest>>

\* callit through rpc_client_obtain(RpcInt, RpcBytes): port and result are
\* unpacked from the tunnel's Call; do_call line 283 binds them and line 284
\* returns
callit_obtain(u, tc, port, data) ==
    IF ~port.ok \/ ~data.ok
    THEN [u EXCEPT !.pc = "raised", !.exc = "EOFError", !.tcall = tc]
    ELSE [u EXCEPT !.pc = "returned", !.tcall = tc, !.port = port.val,
                   !.data = data.val]

\* do_call lines 312-314 with the outcome s of set_reply on the Call on the
\* wire
do_call_received(u, s, delay, src) ==
    LET v == [u EXCEPT !.rets = Append(u.rets, s.ret.kind),
                       !.srcs = Append(u.srcs, src),
                       !.elapsed = u.elapsed + delay]
    IN
    IF s.ret.kind = "raise"
    THEN [v EXCEPT !.pc = "raised", !.exc = s.ret.exc,
                   !.tcall = IF u.tunnel THEN s.call ELSE u.tcall]
    ELSE IF ~accepted(s.ret)
    THEN [v EXCEPT !.tcall = IF u.tunnel THEN s.call ELSE u.tcall]
    ELSE IF u.tunnel
    THEN callit_obtain(v, s.call, unpack_int(s.call.ubuf, s.call.upos),
                       unpack_opaque(s.call.ubuf, s.call.upos + 4))
    ELSE [v EXCEPT !.pc = "returned"]

\* do_call lines 296-314, one pass in which select reports the socket
\* readable after delay: a connected socket receives from its peer only
UDPClient_do_call_recv(reply, delay, src) ==
    /\ udpc.pc = "wait"
    /\ Len(udpc.rets) < MaxDatagrams
    /\ udpc.connected => src = "peer"
    /\ reply_in' = reply
    /\ \E s \in {set_reply(wire_call(udpc, call), reply)} :
         /\ udpc' = do_call_received(udpc, s, delay, src)
         /\ call' = IF udpc.tunnel THEN call ELSE s.call
         /\ ret' = s.ret
    /\ UNCHANGED <<server, hpc, call_in, h, status, rcvd, sent, client, xids,
                   frag, tcpc,
                   rest>>

NextUDPClient ==
    \/ UDPClient_enable_broadcast
    \/ UDPClient_set_tunnel
    \/ UDPClient_connect
    \/ \E proc \in Procs : UDPClient_make_call(proc)
    \/ UDPClient_do_call_send
    \/ UDPClient_do_call_timeout
    \/ \E reply \in DatagramReplies, delay \in Delays, src \in Sources :
         UDPClient_do_call_recv(reply, delay, src)

SpecUDPClient == InitUDPClient /\ [][NextUDPClient]_vars

\* the transmissions that went out: socket calls that did not raise
Succeeded(x) == x.err = ""
Transmissions(u) == SelectSeq(u.sends, Succeeded)
Retransmissions(u) == Len(Transmissions(u)) - 1

\* a reply that decodes to MSG_DENIED or to an accept status other than
\* SUCCESS (null verifier)
IsErrorReply(r) ==
    /\ IsWord(r, 1, REPLY)
    /\ \/ IsWord(r, 2, MSG_DENIED)
       \/ /\ IsWord(r, 2, MSG_ACCEPTED)
          /\ IsWord(r, 3, AUTH_NULL) /\ IsWord(r, 4, 0)
          /\ HasWord(r, 5)
          /\ ~IsWord(r, 5, SUCCESS)

\* the step is a pass of do_call's loop that received a datagram
ReceivedDatagram == udpc.pc = "wait" /\ Len(udpc'.rets) = Len(udpc.rets) + 1

\* C12: for a call without tunnel every expired wait window up to the fifth is
\* followed by one retransmission, there are at most five retransmissions,
\* do_call fails with timeout exactly when a sixth window has expired, and a
\* do_call that returned after k-1 expired windows made k-1 retransmissions.
C12_RetryBound ==
    (~udpc.tunnel /\ udpc.pc \in {"wait", "returned", "raised"}) =>
      /\ Retransmissions(udpc) <= 5
      /\ udpc.expired <= 5 => Retransmissions(udpc) = udpc.expired
      /\ (udpc.pc = "raised" /\ udpc.exc = "RPCError: timeout") <=> udpc.expired = 6
      /\ udpc.expired = 6 => Retransmissions(udpc) = 5

\* C13: the timeouts of the successive wait windows of one UDP call are 1, 2,
\* 4, 8, 16 seconds, and no window is longer than the cap of 25 seconds.
C13_TimeoutSchedule ==
    /\ Len(udpc.windows) <= 5
    /\ \A i \in 1..Len(udpc.windows) :
         /\ udpc.windows[i] <= TimeoutCap
         /\ i <= 5 => udpc.windows[i] = <<1, 2, 4, 8, 16>>[i]

\* C14: a received reply whose xid is not the xid of the call on the wire is
\* discarded: do_call keeps waiting, sends nothing, and count and timeout keep
\* their values; and the wait goes on within the same window, so no window
\* lasts longer than its timeout (extra = 0).
C14_DiscardMismatch ==
    /\ [](udpc.extra = 0)
    /\ [][(ReceivedDatagram /\ reply_in' \in WellFormedReplies
             /\ Word(reply_in', 0) # pack_uint(wire_call(udpc, call).xid))
           => /\ udpc'.pc = "wait"
              /\ udpc'.sends = udpc.sends
              /\ udpc'.count = udpc.count
              /\ udpc'.timeout = udpc.timeout]_vars

\* C15: when do_call receives a reply that decodes to MSG_DENIED or to an
\* accept status other than SUCCESS, it ends with an exception raised to the
\* caller, and nothing is transmitted in that pass or afterwards.
C15_NoRetryOnError ==
    [][/\ (ReceivedDatagram /\ IsErrorReply(reply_in'))
            => (udpc'.pc = "raised" /\ udpc'.exc # "" /\ udpc'.sends = udpc.sends)
       /\ udpc.pc = "raised" => (udpc'.pc = "raised" /\ udpc'.sends = udpc.sends)]_vars

\* C15 witness: after one retransmission a PROG_UNAVAIL reply with the
\* call's xid arrived and do_call raised; two datagrams were sent in all
C15_Witness ==
    /\ udpc.pc = "raised"
    /\ ~udpc.tunnel
    /\ IsErrorReply(reply_in)
    /\ Word(reply_in, 0) = pack_uint(call.xid)
    /\ IsWord(reply_in, 5, PROG_UNAVAIL)
    /\ udpc.expired = 1
    /\ Len(udpc.sends) = 2

\* C16: in broadcast mode the socket do_call uses is not connected and every
\* socket call that transmits the call, the first and each retransmission,
\* is a sendto.
C16_Broadcast ==
    (udpc.broadcast /\ ~udpc.tunnel /\ udpc.pc # "new") =>
      /\ ~udpc.connected
      /\ \A i \in 1..Len(udpc.sends) : udpc.sends[i].op = "sendto"

\* C17: when do_call has returned with a tunnel installed, the datagram sent
\* was CALLIT(prog, vers, proc, the Call's bytes), and the Call's inbound
\* cursor holds the result the portmapper returned.
C17_Tunnel ==
    (udpc.tunnel /\ udpc.pc = "returned") =>
      /\ udpc.sends[1].data =
           pack_callheader(1, PMAP_PROG, PMAP_VERS, PMAPPROC_CALLIT, NullAuth, NullAuth)
             \o pack_int(client.prog) \o pack_int(client.vers) \o pack_int(call.proc)
             \o pack_opaque(call.packer)
      /\ call.ubuf # << >>
      /\ Slice(call.ubuf, call.upos, Len(call.ubuf)) = udpc.data

----------------------------------------------------------------------------
(* sendrecord and recvrecord as functions of the record, the fragment      *)
(* size and what the stream delivers.                                      *)

MaxRecordLen == 4      \* longest record framed, in bytes
MaxFragSize == 3       \* largest frag_size

RecordBytes == {7, 200}

RECURSIVE RecordsOfLen(_)
RecordsOfLen(n) ==
    IF n = 0 THEN {<< >>}
    ELSE {Append(r, b) : r \in RecordsOfLen(n - 1), b \in RecordBytes}

InitFrag ==
    /\ \E n \in 0..MaxRecordLen, frag_size \in 1..MaxFragSize :
         \E record \in RecordsOfLen(n) :
           frag = [pc |-> "ready", record |-> record, frag_size |-> frag_size,
                   writes |-> << >>, cut |-> 0, closed |-> FALSE, got |-> 4,
                   out |-> Blocked(0)]
    /\ hpc = "frag"
    /\ server \in {s \in Servers : s.kind = "TCPServer"}
    /\ status = "listening"
    /\ call_in = << >>
    /\ h = NotHandled
    /\ rcvd = << >>
    /\ sent = << >>
    /\ client = NoClient
    /\ xids = << >>
    /\ call = NoCall
    /\ reply_in = << >>
    /\ ret = NoRet
    /\ tcpc = NoTCPClient
    /\ udpc = NoUDPClient
    /\ InitRest

\* sendrecord(sock, record, frag_size) / async_sendrecord
SendRecord ==
    /\ frag.pc = "ready"
    /\ frag' = [frag EXCEPT !.pc = "sent",
                            !.writes = sendrecord(frag.record, frag.frag_size)]
    /\ UNCHANGED <<server, hpc, call_in, h, status, rcvd, sent, client, xids, call,
                   reply_in, ret, tcpc, udpc,
                   rest>>

\* recvrecord(sock) / async_recvrecord on the other end: the first cut bytes
\* of what was written arrive; then the stream is closed, or stays open and
\* silent.  got is what the recv(4) of a header finds arrived.
RecvRecord(cut, closed, got) ==
    /\ frag.pc = "sent"
    /\ cut <= Len(Flatten(frag.writes))
    /\ frag' = [frag EXCEPT
                  !.pc = "received", !.cut = cut, !.closed = closed, !.got = got,
                  !.out = recvrecord(SubSeq(Flatten(frag.writes), 1, cut), closed, got)]
    /\ UNCHANGED <<server, hpc, call_in, h, status, rcvd, sent, client, xids, call,
                   reply_in, ret, tcpc, udpc,
                   rest>>

NextFrag ==
    \/ SendRecord
    \/ \E cut \in 0..(MaxRecordLen + 4 * MaxRecordLen), closed \in BOOLEAN,
          got \in HeaderReads : RecvRecord(cut, closed, got)

SpecFrag == InitFrag /\ [][NextFrag]_vars

\* number of bytes written before fragment i
FragStart(writes, i) == Len(Flatten(SubSeq(writes, 1, i - 1)))

\* the stream ends within the header of a fragment, or within its payload
CutInHeader(writes, cut) ==
    \E i \in 1..Len(writes) :
      FragStart(writes, i) <= cut /\ cut < FragStart(writes, i) + 4

CutInPayload(writes, cut) ==
    \E i \in 1..Len(writes) :
      FragStart(writes, i) + 4 <= cut /\ cut < FragStart(writes, i) + Len(writes[i])

\* ceil(n / d)
CeilDiv(n, d) == (n + d - 1) \div d

\* C18: for every record b, the empty one included, and every frag_size >= 1,
\* recvrecord returns b from the bytes that sendrecord(b, frag_size) wrote,
\* when all of them arrive and every header is found whole.
C18_FragRoundTrip ==
    (frag.pc = "received" /\ frag.cut = Len(Flatten(frag.writes)) /\ frag.got = 4) =>
      (frag.out.kind = "ok" /\ frag.out.data = frag.record)

\* C19: sendrecord(b, frag_size) writes ceil(len(b) / frag_size) fragments and
\* at least one; each payload has at most frag_size bytes; the last fragment
\* and no other has the top bit of its header set; the low 31 bits of each
\* header are the length of the payload.
C19_FragStructure ==
    frag.pc \in {"sent", "received"} =>
      /\ Len(frag.writes) >= 1
      /\ Len(frag.writes) = CeilDiv(Len(frag.record), frag.frag_size)
           \/ (frag.record = << >> /\ Len(frag.writes) = 1)
      /\ \A i \in 1..Len(frag.writes) :
           /\ Len(frag.writes[i]) >= 4
           /\ Len(frag.writes[i]) - 4 <= frag.frag_size
           /\ (frag.writes[i][1] >= 128) <=> (i = Len(frag.writes))
           /\ (frag.writes[i][1] % 128) * 16777216 + frag.writes[i][2] * 65536
                + frag.writes[i][3] * 256 + frag.writes[i][4]
                = Len(frag.writes[i]) - 4

----------------------------------------------------------------------------
(* The connections of a TCP server: TCPServer.listen / handle_call          *)
(* (server.py lines 314-355) and AsyncTCPServer.bind / handle_call / handle  *)
(* / process_call (lines 365-484).  Every connection has a position in       *)
(* handle_call; the log keeps, in order, which call was handed to handle     *)
(* and which reply was written.                                              *)

MaxServed == 3         \* calls the server receives, over all connections

Connections == {"A", "B"}

\* calls and other records the clients send
ServeArrivals(self) ==
    { Message(9, CALL, RPCVERSION, self.prog, self.vers, ProcNull,
              NullAuth, NullAuth, << >>),
      Message(9, CALL, RPCVERSION, self.prog, self.vers, ProcEcho,
              NullAuth, NullAuth, pack_int(5)),
      Message(9, CALL, RPCVERSION + 1, self.prog, self.vers, ProcEcho,
              NullAuth, NullAuth, pack_int(5)),
      Message(9, REPLY, RPCVERSION, self.prog, self.vers, ProcNull,
              NullAuth, NullAuth, << >>),
      Message(9, CALL, RPCVERSION, self.prog, self.vers, ProcNull,
              NullAuth, NullAuth, pack_int(5)) }

CallEvent(c, i) == [ev |-> "call", conn |-> c, i |-> i]
ReplyEvent(c, i) == [ev |-> "reply", conn |-> c, i |-> i]

\* mutant of task_per_connection: the cooperative server serves its
\* connections one after the other
task_per_connection_never(self) == FALSE

\* AsyncTCPServer.bind line 377: asyncio.start_server runs handle_call as a
\* task of its own for every connection; TCPServer.listen lines 326-328 runs
\* handle_call inside its accept loop
task_per_connection(self) == self.kind = "AsyncTCPServer"

\* process_call line 480, asyncio.iscoroutinefunction(method): the typed
\* handler of the cooperative server is made with rpc_server_obtain_async and
\* rpc_server_return_async (lines 615-627, 686-695)
iscoroutinefunction(self, method) ==
    self.kind = "AsyncTCPServer" /\ method = "rpc_server_obtain"

\* process_call line 481, "await method(packer, unpacker)": the wrapper unpacks
\* the arguments and then awaits the function, which may suspend there
awaits(self, record, hd) ==
    /\ hd.invoked
    /\ IsWord(record, 5, ProcEcho)
    /\ iscoroutinefunction(self, method_map[ProcEcho])
    /\ hd.ret.kind = "reply"
    /\ SubSeq(hd.ret.bytes, 1, 24) = AcceptedReply(hd.ret.bytes, SUCCESS)

\* the handler that a connection's task awaits: the call's number and what
\* handle returns once the handler has resumed; i = 0 when there is none
Pending(i, hd) == [i |-> i, hd |-> hd]
NoPending == Pending(0, NotHandled)

InitServe ==
    /\ server \in {s \in Servers : s.kind \in {"TCPServer", "AsyncTCPServer"}}
    /\ status = "listening"
    /\ hpc = "serve"
    /\ call_in = << >>
    /\ h = NotHandled
    /\ rcvd = << >>
    /\ sent = << >>
    /\ client = NoClient
    /\ xids = << >>
    /\ call = NoCall
    /\ reply_in = << >>
    /\ ret = NoRet
    /\ frag = NoFrag
    /\ tcpc = NoTCPClient
    /\ udpc = NoUDPClient
    /\ conns = [pc |-> "serving",
                task |-> [c \in Connections |-> "none"],
                n |-> [c \in Connections |-> 0],
                pending |-> [c \in Connections |-> NoPending],
                log |-> << >>]
    /\ pxy = NoProxy
    /\ reg = NoReg
    /\ xdr = NoXdr

ServeUnchanged ==
    UNCHANGED <<server, hpc, status, rcvd, sent, client, xids, call,
                reply_in, ret, frag, tcpc, udpc, pxy, reg, xdr>>

\* a client connects: the kernel completes the handshake; the cooperative
\* server starts the connection's handle_call task, the sequential server
\* leaves the connection in the backlog until it calls accept
Connect(c) ==
    /\ conns.pc = "serving"
    /\ conns.task[c] = "none"
    /\ conns' = [conns EXCEPT
                   !.task[c] = IF task_per_connection(server) THEN "recv"
                               ELSE "backlog"]
    /\ UNCHANGED <<call_in, h>>
    /\ ServeUnchanged

\* TCPServer.listen lines 327-328: accept returns the next connection once
\* handle_call of the previous one has returned
TCPServer_accept(c) ==
    /\ conns.pc = "serving"
    /\ ~task_per_connection(server)
    /\ conns.task[c] = "backlog"
    /\ \A d \in Connections : conns.task[d] \notin {"recv", "await"}
    /\ conns' = [conns EXCEPT !.task[c] = "recv"]
    /\ UNCHANGED <<call_in, h>>
    /\ ServeUnchanged

\* handle_call lines 352-355 / 415-418 once handle is over: the reply is
\* written if there is one; an exception of handle leaves handle_call, which
\* ends the task of the connection (cooperative) or listen (sequential)
handle_call_finish(self, cs, c, i, hd) ==
    [cs EXCEPT
       !.pc = IF hd.ret.kind = "raise" /\ ~task_per_connection(self)
              THEN "dead" ELSE @,
       !.task[c] = IF hd.ret.kind = "raise" THEN "ended" ELSE "recv",
       !.log = IF reply_is_sent(hd.ret) THEN Append(@, ReplyEvent(c, i))
               ELSE @]

\* mutant of await_handle: handle runs detached from the loop, which goes on
\* to the next recvrecord
await_handle_detached(yields) == "recv"

\* handle_call line 415, "reply = await self.handle(call)": while the handler
\* is suspended the loop of the connection stays at this line
await_handle(yields) == IF yields THEN "await" ELSE "recv"

\* handle_call lines 343-355 / 406-418, one record of connection c, up to the
\* point where the handler suspends (yields) or the pass of the loop ends
handle_call_record(c, record, yields) ==
    /\ conns.pc = "serving"
    /\ conns.task[c] = "recv"
    /\ Len(SelectSeq(conns.log, LAMBDA e : e.ev = "call")) < MaxServed
    /\ call_in' = record
    /\ \E hd \in {handle(server, record)} :
         /\ h' = hd
         /\ yields => awaits(server, record, hd)
         /\ \E cs \in {[conns EXCEPT !.n[c] = @ + 1,
                                     !.log = Append(@, CallEvent(c, conns.n[c] + 1))]} :
              conns' = IF yields
                       THEN [cs EXCEPT !.task[c] = await_handle(yields),
                                       !.pending[c] = Pending(cs.n[c], hd)]
                       ELSE handle_call_finish(server, cs, c, cs.n[c], hd)
    /\ ServeUnchanged

\* the awaited handler of connection c resumes and returns; handle and the
\* pass of the loop end
handler_resume(c) ==
    /\ conns.pc = "serving"
    /\ conns.pending[c].i # 0
    /\ conns' = handle_call_finish(server, [conns EXCEPT !.pending[c] = NoPending],
                                   c, conns.pending[c].i, conns.pending[c].hd)
    /\ UNCHANGED <<call_in, h>>
    /\ ServeUnchanged

\* handle_call lines 345-346 / 408-409: the client closed the connection
handle_call_eof(c) ==
    /\ conns.pc = "serving"
    /\ conns.task[c] = "recv"
    /\ conns' = [conns EXCEPT !.task[c] = "ended"]
    /\ UNCHANGED <<call_in, h>>
    /\ ServeUnchanged

NextServe ==
    \/ \E c \in Connections : Connect(c)
    \/ \E c \in Connections : TCPServer_accept(c)
    \/ \E c \in Connections, record \in ServeArrivals(server), yields \in BOOLEAN :
         handle_call_record(c, record, yields)
    \/ \E c \in Connections : handler_resume(c)
    \/ \E c \in Connections : handle_call_eof(c)

SpecServe == InitServe /\ [][NextServe]_vars

\* position of an event in the log, 0 when it is not there
RECURSIVE IndexOf(_, _, _)
IndexOf(log, e, k) ==
    IF k > Len(log) THEN 0
    ELSE IF log[k] = e THEN k ELSE IndexOf(log, e, k + 1)

\* C21: on one connection the replies are written in the order of the calls,
\* and the reply to call i is written before call i+1 of that connection is
\* handed to handle, for the sequential and the cooperative server, also
\* when the handler of call i suspends.
C21_ReplyOrder ==
    \A c \in Connections :
      \A k1 \in 1..Len(conns.log), k2 \in 1..Len(conns.log) :
        LET e1 == conns.log[k1]
            e2 == conns.log[k2]
        IN (e1.conn = c /\ e2.conn = c /\ k1 < k2) =>
             /\ (e1.ev = "reply" /\ e2.ev = "reply") => e1.i < e2.i
             /\ (e1.ev = "call" /\ e2.ev = "reply") => e1.i <= e2.i
             /\ (e1.ev = "reply" /\ e2.ev = "call") => e1.i < e2.i
             /\ (e1.ev = "call" /\ e2.ev = "call") => e1.i < e2.i
             /\ (e1.ev = "reply") => IndexOf(conns.log, CallEvent(c, e1.i), 1) \in 1..(k1 - 1)

\* C21 witness: the cooperative server; connection A sent a call whose handler
\* suspended and, while it was suspended, connection B was answered; then A
\* got reply 1, sent call 2 and got reply 2
C21_Witness ==
    /\ server.kind = "AsyncTCPServer"
    /\ conns.log = <<CallEvent("A", 1), CallEvent("B", 1), ReplyEvent("B", 1),
                     ReplyEvent("A", 1), CallEvent("A", 2), ReplyEvent("A", 2)>>

\* connection b received a call in this step and its reply was written in
\* the same step
Answered(b) ==
    conns'.log = conns.log \o <<CallEvent(b, conns.n[b] + 1),
                                ReplyEvent(b, conns.n[b] + 1)>>

\* C22: in the cooperative server, while the handler of a call on connection
\* a is suspended, another connection b is accepted without waiting for a,
\* and a call that b's loop receives in that time is handed to handle and
\* answered in the same pass of the loop, a's handler still being suspended.
C22_Concurrent ==
    /\ [](\A a \in Connections, b \in Connections :
           (server.kind = "AsyncTCPServer" /\ a # b /\ conns.pc = "serving"
              /\ conns.task[a] = "await" /\ conns.task[b] = "none") =>
             ENABLED (Connect(b) /\ conns'.task[b] = "recv"))
    /\ [][\A a \in Connections, b \in Connections :
           (/\ server.kind = "AsyncTCPServer" /\ a # b
            /\ conns.task[a] = "await"
            /\ conns'.n[b] = conns.n[b] + 1
            /\ conns'.task[b] # "await"
            /\ reply_is_sent(h'.ret)) =>
             (conns'.task[a] = "await" /\ Answered(b))]_vars

\* C22 witness: A's handler is suspended, B connected after that and has been
\* answered
C22_Witness ==
    /\ server.kind = "AsyncTCPServer"
    /\ conns.task["A"] = "await"
    /\ conns.log = <<CallEvent("A", 1), CallEvent("B", 1), ReplyEvent("B", 1)>>

\* C23: an exception of a handler other than GarbageArgs ends at most the
\* connection it occurred on: after the pass of the loop in which handle
\* raised it, the sequential TCP server is back at accept, and the UDP server
\* is back at recvfrom, ready for the next datagram.
C23_HandlerException ==
    [][(rcvd' # rcvd /\ h'.invoked /\ h'.ret.kind = "raise")
         => status' = "listening"]_vars

----------------------------------------------------------------------------
(* The proxy: proxy.py.  TCPProxy, UDPProxy and AsyncTCPProxy take handle    *)
(* and handle_call from their server class and process_call from Proxy.      *)
(* The upstream is a server of this library with the handlers of             *)
(* method_map; what it answers is what its handle returns.                   *)

\* the proxies under consideration, after construction (Proxy.__init__ with
\* tprog, tvers left at their defaults, lines 36-46)
\* and the target they forward to: a server of this library, or another RPC
\* server that answers every call with the same reply body behind the xid
ProxyKinds ==
    { [kind |-> "TCPProxy", prot |-> IPPROTO_TCP],
      [kind |-> "AsyncTCPProxy", prot |-> IPPROTO_TCP],
      [kind |-> "UDPProxy", prot |-> IPPROTO_UDP] }

AcceptedBody(stat) ==
    pack_uint(REPLY) \o pack_uint(MSG_ACCEPTED) \o pack_auth(NullAuth) \o pack_uint(stat)

DeniedBody(stat) == pack_uint(REPLY) \o pack_uint(MSG_DENIED) \o pack_uint(stat)

Targets ==
    { [kind |-> "sunrpc", body |-> << >>],
      [kind |-> "other", body |-> AcceptedBody(SUCCESS) \o pack_int(5)],
      [kind |-> "other", body |-> AcceptedBody(SUCCESS) \o <<97, 98, 99>>],
      [kind |-> "other", body |-> AcceptedBody(GARBAGE_ARGS)],
      [kind |-> "other", body |-> AcceptedBody(PROG_UNAVAIL)],
      [kind |-> "other", body |-> AcceptedBody(PROG_MISMATCH) \o pack_uint(3) \o pack_uint(3)],
      [kind |-> "other", body |-> AcceptedBody(PROC_UNAVAIL)],
      [kind |-> "other", body |-> DeniedBody(RPC_MISMATCH) \o pack_uint(2) \o pack_uint(2)],
      [kind |-> "other", body |-> DeniedBody(AUTH_ERROR) \o pack_uint(1)] }

Proxies ==
    { [kind |-> k.kind, prog |-> 1337, vers |-> 2, prot |-> k.prot, target |-> t] :
        k \in ProxyKinds, t \in Targets }

\* Proxy.__init__ lines 40-43: self.client = get_client(target, tport, tprog,
\* tvers, tprot)
Proxy_client(self) ==
    [lastxid |-> 0, prog |-> self.prog, vers |-> self.vers, cred |-> None, verf |-> None]

\* the server behind the proxy: it exposes tprog, tvers over tprot
Upstream(self) ==
    [kind |-> IF self.prot = IPPROTO_UDP THEN "UDPServer" ELSE "TCPServer",
     prog |-> self.prog, vers |-> self.vers, prot |-> self.prot]

\* Proxy.method_map after construction: Server.__init__ line 51 installs
\* turn_around for procedure 0; the user installed no hook
proxy_method_map == (ProcNull :> "turn_around")

\* calls the proxy receives
ProxyXids == {9, 20}
ProxyVerfs == {NullAuth, [flavor |-> AUTH_UNIX, stuff |-> <<3>>]}
ProxyArgTails == {<< >>, pack_int(5), pack_int(5) \o pack_int(-3), <<7>>}
ProxyArrivals(self) ==
    {Message(xid, CALL, RPCVERSION, self.prog, self.vers, proc, NullAuth, NullAuth, args) :
        xid \in ProxyXids, proc \in Procs, args \in ProxyArgTails}
    \cup
    {Message(9, CALL, RPCVERSION, self.prog, self.vers, ProcEcho, cred, verf, pack_int(5)) :
        cred \in Creds, verf \in ProxyVerfs}
    \cup
    { Message(9, CALL, RPCVERSION, self.prog, self.vers + 1, ProcEcho, NullAuth,
              NullAuth, pack_int(5)),
      Message(9, REPLY, RPCVERSION, self.prog, self.vers, ProcEcho, NullAuth,
              NullAuth, pack_int(5)) }

\* what one run of Proxy.process_call did: its outcome p, the upstream client
\* afterwards, the Call it made, the records do_call sent upstream, and what
\* the upstream's handle returned
Forwarded(p, cl, c, sends, up) ==
    [p |-> p, client |-> cl, call |-> c, sends |-> sends, up |-> up]

\* process_call lines 69-71
Proxy_set_client(cl, xid, auth, verf) ==
    [cl EXCEPT !.cred = Some(auth), !.verf = Some(verf), !.lastxid = xid]

\* process_call line 73, self.client.make_call(call_id): the client afterwards
Proxy_make_call_client(cl) == [cl EXCEPT !.lastxid = next_xid(cl.lastxid)]

\* process_call line 73: the Call that make_call returns
Proxy_make_call(cl, proc) ==
    Call(next_xid(cl.lastxid), cl.prog, cl.vers, proc, cl.cred, cl.verf)

\* forward_request lines 106-111: the unparsed tail of the incoming call is
\* packed raw into the upstream call
forward_request(buf, pos, c) ==
    IF Len(buf) - pos > 0
    THEN [c EXCEPT !.packer = @ \o SubSeq(buf, pos + 1, Len(buf))]
    ELSE c

\* what the target does with the record the proxy's client sent: handle of
\* the library's server, or the fixed reply behind the xid of the call
Upstream_handle(self, callbytes) ==
    IF self.target.kind = "sunrpc" THEN handle(Upstream(self), callbytes)
    ELSE Handled(ReturnBytes(Word(callbytes, 0) \o self.target.body), << >>, FALSE,
                 << >>, 0, << >>)

\* self.client.do_call(call) with up, what the upstream's handle did with the
\* call: a reply goes through set_reply; without a reply a stream client
\* finds the end of the stream and a datagram client times out.  The
\* upstream echoes the xid, so set_reply does not return False.
Proxy_do_call(self, c, up) ==
    IF up.ret.kind = "reply" THEN set_reply(c, up.ret.bytes)
    ELSE [call |-> c,
          ret |-> [kind |-> "raise",
                   exc |-> IF self.prot = IPPROTO_UDP THEN "RPCError" ELSE "EOFError"]]

\* forward_response lines 126-131
forward_response(packer, c) ==
    packer \o pack_uint(SUCCESS) \o SubSeq(c.ubuf, c.upos + 1, Len(c.ubuf))

\* mutant of plain_forward_response: forward_response runs whatever do_call
\* did
plain_forward_response_always(a, d) ==
    Outcome("ok", ReturnNone, a.xid, a.call_id, a.auth, a.verf, a.pos,
            forward_response(a.packer, d.call), "", TRUE, a.packer)

\* plain_forward after forward_request's do_call came back with d
plain_forward_response(a, d) ==
    IF d.ret.kind = "raise"
    THEN Outcome(CASE d.ret.exc = "EOFError" -> "eof"
                   [] d.ret.exc = "RPCGarbageArgs" -> "garbage"
                   [] OTHER -> "error",
                 ReturnNone, a.xid, a.call_id, a.auth, a.verf, a.pos, a.packer,
                 d.ret.exc, TRUE, a.packer)
    ELSE Outcome("ok", ReturnNone, a.xid, a.call_id, a.auth, a.verf, a.pos,
                 forward_response(a.packer, d.call), "", TRUE, a.packer)

\* Proxy.plain_forward(packer, unpacker, call), c the call after
\* forward_request packed the tail and up what the upstream did with it
plain_forward(self, a, cl, c, up) ==
    Forwarded(plain_forward_response(a, Proxy_do_call(self, c, up)), cl,
              Proxy_do_call(self, c, up).call, <<c.packer>>, up)

\* process_call lines 75-76: method = self.method_map.get(call_id,
\* self.plain_forward); method(packer, unpacker, call).  turn_around takes
\* (packer, unpacker): the call with three arguments raises TypeError.
Proxy_method(self, a, cl, c) ==
    IF a.call_id \in DOMAIN proxy_method_map
    THEN Forwarded(Outcome("error", ReturnNone, a.xid, a.call_id, a.auth, a.verf,
                           a.pos, a.packer, "TypeError", TRUE, a.packer),
                   cl, c, << >>, NotHandled)
    ELSE plain_forward(self, a, cl, forward_request(a.buf, a.pos, c),
                       Upstream_handle(self, forward_request(a.buf, a.pos, c).packer))

\* Proxy.process_call with a, what get_call_attrs returned (a.buf the call)
Proxy_process_call(self, cl, a) ==
    Proxy_method(self, a,
                 Proxy_make_call_client(Proxy_set_client(cl, a.xid, a.auth, a.verf)),
                 Proxy_make_call(Proxy_set_client(cl, a.xid, a.auth, a.verf), a.call_id))

\* AsyncTCPServer.handle line 437, "await self.process_call(...)" with
\* Proxy.process_call, which is no coroutine function: when it returns, its
\* None is awaited, which raises TypeError
await_process_call(self, p) ==
    IF self.kind = "AsyncTCPProxy" /\ p.kind = "ok"
    THEN [p EXCEPT !.kind = "error", !.exc = "TypeError"]
    ELSE p

\* Server.handle / AsyncTCPServer.handle of a proxy once get_call_attrs
\* returned a and, if it returned normally, process_call ran as f
Proxy_handle(self, callbytes, a, f) ==
    IF a.kind = "header"
    THEN Handled(a.response, <<Hook(callbytes, TRUE)>>, FALSE, << >>, a.pos, a.packer)
    ELSE IF a.kind = "eof"
    THEN Handled(Raises("UnboundLocalError"), <<Hook(callbytes, TRUE)>>, FALSE,
                 << >>, a.pos, << >>)
    ELSE after_process_call(callbytes, a.xid, await_process_call(self, f.p))

NotForwarded(cl) == Forwarded(HeaderError(ReturnNone, 0, << >>), cl, NoCall, << >>, NotHandled)

InitProxy ==
    /\ server \in Proxies
    /\ status = "listening"
    /\ hpc = "proxy"
    /\ call_in = << >>
    /\ h = NotHandled
    /\ rcvd = << >>
    /\ sent = << >>
    /\ client = NoClient
    /\ xids = << >>
    /\ call = NoCall
    /\ reply_in = << >>
    /\ ret = NoRet
    /\ frag = NoFrag
    /\ tcpc = NoTCPClient
    /\ udpc = NoUDPClient
    /\ conns = NoConns
    /\ pxy = [pc |-> "serving", attrs |-> HeaderError(ReturnNone, 0, << >>),
              fwd |-> NotForwarded(Proxy_client(server)), out |-> << >>]
    /\ reg = NoReg
    /\ xdr = NoXdr

\* one pass of the proxy's handle_call: a record or datagram is received,
\* handle runs, the reply is sent if there is one (out: what this pass wrote).  An exception of handle
\* ends listen (TCPProxy, UDPProxy) or the task of the connection
\* (AsyncTCPProxy).
Proxy_handle_call(record) ==
    /\ pxy.pc = "serving"
    /\ call_in' = record
    /\ \E a \in {get_call_attrs(server, record)} :
         \E b \in {[kind |-> a.kind, response |-> a.response, xid |-> a.xid,
                    call_id |-> a.call_id, auth |-> a.auth, verf |-> a.verf,
                    pos |-> a.pos, packer |-> a.packer, buf |-> record]} :
           \E f \in {IF a.kind = "ok" THEN Proxy_process_call(server, pxy.fwd.client, b)
                     ELSE NotForwarded(pxy.fwd.client)} :
             \E hd \in {Proxy_handle(server, record, a, f)} :
               /\ h' = hd
               /\ pxy' = [pc |-> IF hd.ret.kind = "raise" /\ server.kind # "AsyncTCPProxy"
                                 THEN "dead" ELSE "serving",
                          attrs |-> a, fwd |-> f, out |-> transmit(<< >>, hd.ret)]
    /\ UNCHANGED <<server, hpc, status, rcvd, sent, client, xids, call, reply_in, ret,
                   frag, tcpc, udpc, conns, reg, xdr>>

NextProxy == \E record \in ProxyArrivals(server) : Proxy_handle_call(record)

SpecProxy == InitProxy /\ [][NextProxy]_vars

\* the proxy forwarded the call it received last
ForwardedCall == pxy.fwd.sends # << >>

\* C24: for every call the proxy forwards, the xid, cred and verf packed into
\* the header of the upstream call are the xid, cred and verf read from the
\* incoming call.
C24_HeaderMirrored ==
    ForwardedCall =>
      /\ Word(pxy.fwd.sends[1], 0) = Word(call_in, 0)
      /\ get_call_attrs(Upstream(server), pxy.fwd.sends[1]).auth = pxy.attrs.auth
      /\ get_call_attrs(Upstream(server), pxy.fwd.sends[1]).verf = pxy.attrs.verf

\* the result bytes of an accepted reply with a NULL verifier: what follows
\* the accept status
ResultBytes(reply) == SubSeq(reply, 25, Len(reply))

\* C25: for every call the upstream answers with SUCCESS, the proxy returns to
\* its client the client's xid, REPLY, MSG_ACCEPTED, a NULL verifier, SUCCESS
\* and then exactly the upstream's result bytes.
C25_Transparency ==
    (/\ ForwardedCall
     /\ pxy.fwd.up.ret.kind = "reply"
     /\ Len(pxy.fwd.up.ret.bytes) >= 24
     /\ SubSeq(pxy.fwd.up.ret.bytes, 1, 24)
          = AcceptedReply(pxy.fwd.up.ret.bytes, SUCCESS)) =>
      /\ Len(pxy.out) = 1
      /\ pxy.out[1] = Word(call_in, 0) \o pack_uint(REPLY) \o pack_uint(MSG_ACCEPTED)
                         \o pack_auth(NullAuth) \o pack_uint(SUCCESS)
                         \o ResultBytes(pxy.fwd.up.ret.bytes)

\* C26: for every procedure without a user hook, procedure 0 included, the
\* proxy applies the plain forward to a call that passed the header checks:
\* the unparsed tail of the call is copied byte for byte behind the header of
\* the upstream call, and do_call is invoked exactly once.
C26_PlainForward ==
    pxy.attrs.kind = "ok" =>
      /\ Len(pxy.fwd.sends) = 1
      /\ SubSeq(pxy.fwd.sends[1], pxy.attrs.pos + 1, Len(pxy.fwd.sends[1]))
           = SubSeq(call_in, pxy.attrs.pos + 1, Len(call_in))

\* C27: for every call record for which handle returns a reply, hook was
\* invoked exactly twice: first with the complete call bytes and
\* is_request = TRUE, then with the complete reply bytes and
\* is_request = FALSE; also when the reply is RPC_MISMATCH, PROG_UNAVAIL,
\* PROG_MISMATCH or PROC_UNAVAIL.
C27_HookPerRecord ==
    (hpc = "done" /\ h.ret.kind = "reply") =>
      h.hooks = <<Hook(call_in, TRUE), Hook(h.ret.bytes, FALSE)>>

----------------------------------------------------------------------------
(* Server.bind, register, unregister and __del__: server.py lines 53-116,    *)
(* 297-312, 365-378, 508-522.  The portmapper's answer to SET and UNSET is   *)
(* an input: true, false, or no answer (the call times out and raises).      *)

MaxMapperOps == 3      \* SET / UNSET calls issued to the portmapper

PMAPPROC_SET == 1
PMAPPROC_UNSET == 2

RequestedPorts == {0, 2049}
OSPorts == {40000, 40001}
MapperAnswers == {"true", "false", "timeout"}

\* the arguments of set / unset: rpc_client_send(proc, RpcInt, RpcInt, RpcInt,
\* RpcInt) packs prog, vers, prot, port (portmapper.py lines 45-53)
mapping(self, port) ==
    pack_int(self.prog) \o pack_int(self.vers) \o pack_int(self.prot) \o pack_int(port)

MapperOp(proc, args, answer) == [proc |-> proc, args |-> args, answer |-> answer]

\* what the last call of bind / register / unregister / __del__ did
LastOp(op, answer, exc, before) ==
    [op |-> op, answer |-> answer, exc |-> exc, before |-> before]

InitRegister ==
    /\ server \in Servers
    /\ status = "listening"
    /\ hpc = "register"
    /\ call_in = << >>
    /\ h = NotHandled
    /\ rcvd = << >>
    /\ sent = << >>
    /\ client = NoClient
    /\ xids = << >>
    /\ call = NoCall
    /\ reply_in = << >>
    /\ ret = NoRet
    /\ frag = NoFrag
    /\ tcpc = NoTCPClient
    /\ udpc = NoUDPClient
    /\ conns = NoConns
    /\ pxy = NoProxy
    /\ \E port \in RequestedPorts :
         \* Server.__init__ lines 42-48
         reg = [pc |-> "alive", requested |-> port, port |-> port, bound |-> FALSE,
                mapper |-> FALSE, registered |-> FALSE, ops |-> << >>,
                last |-> LastOp("init", "", "", FALSE)]
    /\ xdr = NoXdr

RegisterUnchanged ==
    UNCHANGED <<server, hpc, call_in, h, status, rcvd, sent, client, xids, call,
                reply_in, ret, frag, tcpc, udpc, conns, pxy, xdr>>

\* bind lines 311-312 / 377-378 / 521-522: the socket is bound to the
\* requested port; getsockname gives the port the OS assigned
Server_bind(assigned) ==
    /\ reg.pc = "alive"
    /\ ~reg.bound
    /\ reg' = [reg EXCEPT !.bound = TRUE,
                          !.port = IF reg.requested = 0 THEN assigned ELSE reg.requested,
                          !.last = LastOp("bind", "", "", reg.registered)]
    /\ RegisterUnchanged

\* register line 80 / unregister line 106: "if self.port == 0"
must_be_bound(r) == r.port = 0

\* mutant of accepted_by_mapper: the portmapper's answer is not looked at
accepted_by_mapper_always(answer) == TRUE

\* register line 87 / unregister line 113: "if not self.mapper.set(...)"
accepted_by_mapper(answer) == answer = "true"

\* register / unregister from line 83 / 109 on: the portmapper client is
\* created on first use, the call is issued; no answer raises out of
\* do_call, a false answer raises RPCError, a true answer sets the flag
mapper_call(self, r, op, proc, answer, flag) ==
    [r EXCEPT !.mapper = TRUE,
              !.ops = Append(@, MapperOp(proc, mapping(self, r.port), answer)),
              !.registered = IF answer # "timeout" /\ accepted_by_mapper(answer)
                             THEN flag ELSE @,
              !.last = LastOp(op, answer,
                              IF answer # "timeout" /\ accepted_by_mapper(answer)
                              THEN "" ELSE "RPCError",
                              r.registered)]

\* Server.register
register(self, r, answer) ==
    IF must_be_bound(r)
    THEN [r EXCEPT !.last = LastOp("register", "", "RPCError", r.registered)]
    ELSE mapper_call(self, r, "register", PMAPPROC_SET, answer, TRUE)

\* Server.unregister
unregister(self, r, op, answer) ==
    IF must_be_bound(r)
    THEN [r EXCEPT !.last = LastOp(op, "", "RPCError", r.registered)]
    ELSE mapper_call(self, r, op, PMAPPROC_UNSET, answer, FALSE)

Server_register(answer) ==
    /\ reg.pc = "alive"
    /\ Len(reg.ops) < MaxMapperOps
    /\ reg' = register(server, reg, answer)
    /\ RegisterUnchanged

Server_unregister(answer) ==
    /\ reg.pc = "alive"
    /\ Len(reg.ops) < MaxMapperOps
    /\ reg' = unregister(server, reg, "unregister", answer)
    /\ RegisterUnchanged

\* Server.__del__ lines 63-64
Server_del(answer) ==
    /\ reg.pc = "alive"
    /\ Len(reg.ops) < MaxMapperOps
    /\ reg' = [(IF reg.registered THEN unregister(server, reg, "del", answer)
                ELSE [reg EXCEPT !.last = LastOp("del", "", "", reg.registered)])
               EXCEPT !.pc = "deleted"]
    /\ RegisterUnchanged

NextRegister ==
    \/ \E assigned \in OSPorts : Server_bind(assigned)
    \/ \E answer \in MapperAnswers : Server_register(answer)
    \/ \E answer \in MapperAnswers : Server_unregister(answer)
    \/ \E answer \in MapperAnswers : Server_del(answer)

SpecRegister == InitRegister /\ [][NextRegister]_vars

\* C28: register before bind fails with an error and issues no SET, whether
\* the port requested at construction was zero or not; after bind with
\* requested port 0 the server's port is the one the OS assigned, and that
\* port is the one sent in every SET.
C28_RegisterAfterBind ==
    /\ ~reg.bound =>
         /\ \A i \in 1..Len(reg.ops) : reg.ops[i].proc # PMAPPROC_SET
         /\ reg.last.op = "register" => reg.last.exc # ""
    /\ (reg.bound /\ reg.requested = 0) =>
         /\ reg.port \in OSPorts
         /\ \A i \in 1..Len(reg.ops) :
              reg.ops[i].proc = PMAPPROC_SET =>
                reg.ops[i].args = mapping(server, reg.port)

\* the last call the portmapper answered with true, 0 when there is none
RECURSIVE LastSucceeded(_, _)
LastSucceeded(ops, k) ==
    IF k = 0 THEN 0
    ELSE IF ops[k].answer = "true" THEN k ELSE LastSucceeded(ops, k - 1)

\* C29: when the portmapper answers SET with false, register raises and
\* leaves the registered flag as it was; and, over every sequence of register
\* and unregister calls, the flag is true exactly when the last call that the
\* portmapper answered with true was a SET.
C29_RegisteredFlag ==
    /\ (reg.last.op = "register" /\ reg.last.answer = "false") =>
         (reg.last.exc = "RPCError" /\ reg.registered = reg.last.before)
    /\ reg.registered <=>
         (/\ LastSucceeded(reg.ops, Len(reg.ops)) # 0
          /\ reg.ops[LastSucceeded(reg.ops, Len(reg.ops))].proc = PMAPPROC_SET)

\* C29 witness: the server was registered, and a later register was rejected
\* by the portmapper: it raised and the flag stayed true
C29_Witness ==
    /\ Len(reg.ops) = 3
    /\ reg.ops[1].proc = PMAPPROC_UNSET /\ reg.ops[1].answer = "true"
    /\ reg.ops[2].proc = PMAPPROC_SET /\ reg.ops[2].answer = "true"
    /\ reg.ops[3].proc = PMAPPROC_SET /\ reg.ops[3].answer = "false"
    /\ reg.last.op = "register"
    /\ reg.last.exc = "RPCError"
    /\ reg.registered

----------------------------------------------------------------------------
(* sunrpc.types: the typed descriptors.  A Python value is a record          *)
(* [t, v, items]: t is its type, v its content as a sequence of integers     *)
(* (the number, the code points of a str, the bytes of a bytes object, the   *)
(* eight bytes of the IEEE 754 double a float is), items the elements of a   *)
(* list.                                                                     *)

MaxItems == 2      \* longest str, bytes and list value
MaxFixed == 2      \* largest length n of FString(n), FBytes(n), FArray(inner, n)

PyNone == [t |-> "NoneType", v |-> << >>, items |-> << >>]
PyInt(x) == [t |-> "int", v |-> <<x>>, items |-> << >>]
PyBool(x) == [t |-> "bool", v |-> <<IF x THEN 1 ELSE 0>>, items |-> << >>]
PyFloat(bits) == [t |-> "float", v |-> bits, items |-> << >>]
PyStr(cps) == [t |-> "str", v |-> cps, items |-> << >>]
PyBytes(bs) == [t |-> "bytes", v |-> bs, items |-> << >>]
PyList(items) == [t |-> "list", v |-> << >>, items |-> items]

\* Python's truth value of x, as "if value" takes it
truthy(x) ==
    CASE x.t = "NoneType" -> FALSE
      [] x.t \in {"int", "bool"} -> x.v[1] # 0
      [] x.t = "float" -> Slice(x.v, 1, 8) # Zeros(7) \/ (x.v[1] % 128) # 0
      [] x.t \in {"str", "bytes"} -> x.v # << >>
      [] x.t = "list" -> x.items # << >>

\* a descriptor: the class and the parameters of its factory
Descriptor(d, n, inner) == [d |-> d, n |-> n, inner |-> inner]

Scalar(d) == Descriptor(d, 0, "")

\* str.encode(): UTF-8 of the code points (below 65536)
RECURSIVE encode(_)
encode(cps) ==
    IF cps = << >> THEN << >>
    ELSE LET cp == Head(cps) IN
         (IF cp < 128 THEN <<cp>>
          ELSE IF cp < 2048 THEN <<192 + (cp \div 64), 128 + (cp % 64)>>
          ELSE <<224 + (cp \div 4096), 128 + ((cp \div 64) % 64), 128 + (cp % 64)>>)
           \o encode(Tail(cps))

Continuation(b, k) == k <= Len(b) /\ b[k] >= 128 /\ b[k] < 192

\* bytes.decode(): [ok, val]; ok = FALSE stands for UnicodeDecodeError
RECURSIVE decode(_)
decode(b) ==
    IF b = << >> THEN [ok |-> TRUE, val |-> << >>]
    ELSE LET n == IF b[1] < 128 THEN 1
                  ELSE IF b[1] >= 194 /\ b[1] < 224 /\ Continuation(b, 2) THEN 2
                  ELSE IF b[1] >= 224 /\ b[1] < 240 /\ Continuation(b, 2)
                            /\ Continuation(b, 3) THEN 3
                  ELSE 0
             cp == CASE n = 1 -> b[1]
                      [] n = 2 -> (b[1] - 192) * 64 + (b[2] - 128)
                      [] n = 3 -> (b[1] - 224) * 4096 + (b[2] - 128) * 64 + (b[3] - 128)
                      [] OTHER -> 0
         IN IF n = 0 \/ (n = 3 /\ cp < 2048) THEN [ok |-> FALSE, val |-> << >>]
            ELSE LET rest_ == decode(SubSeq(b, n + 1, Len(b))) IN
                 [ok |-> rest_.ok, val |-> <<cp>> \o rest_.val]

\* Packer.pack_double: struct.pack('>d', x), the eight bytes of the double
pack_double(bits) == bits

\* Packer.pack_float: struct.pack('>f', x), the double rounded to single
\* precision (round half to even); for zero and for doubles in the normal
\* range of single precision
pack_float(bits) ==
    LET sign == bits[1] \div 128
        e == (bits[1] % 128) * 16 + (bits[2] \div 16)
        m == (bits[2] % 16) * 524288 + bits[3] * 2048 + bits[4] * 8 + (bits[5] \div 32)
        r == (bits[5] % 32) * 16777216 + bits[6] * 65536 + bits[7] * 256 + bits[8]
        up == r > 268435456 \/ (r = 268435456 /\ m % 2 = 1)
        m1 == IF up THEN m + 1 ELSE m
        e32 == IF e = 0 THEN 0 ELSE e - 1023 + 127 + (IF m1 = 8388608 THEN 1 ELSE 0)
        m32 == IF e = 0 \/ m1 = 8388608 THEN 0 ELSE m1
    IN <<sign * 128 + (e32 \div 2), (e32 % 2) * 128 + (m32 \div 65536),
         (m32 \div 256) % 256, m32 % 256>>

\* struct.unpack('>f', data): the single widened to a double
float_of(data) ==
    LET sign == data[1] \div 128
        e32 == (data[1] % 128) * 2 + (data[2] \div 128)
        m == (data[2] % 128) * 65536 + data[3] * 256 + data[4]
        e == IF e32 = 0 THEN 0 ELSE e32 - 127 + 1023
    IN <<sign * 128 + (e \div 16), (e % 16) * 16 + (m \div 524288), (m \div 2048) % 256,
         (m \div 8) % 256, (m % 8) * 32, 0, 0, 0>>

\* Unpacker.unpack_float
unpack_float(buf, pos) ==
    LET data == Slice(buf, pos, pos + 4) IN
    IF Len(data) < 4 THEN [ok |-> FALSE, val |-> Zeros(8), pos |-> pos + 4]
    ELSE [ok |-> TRUE, val |-> float_of(data), pos |-> pos + 4]

\* Unpacker.unpack_double
unpack_double(buf, pos) ==
    LET data == Slice(buf, pos, pos + 8) IN
    IF Len(data) < 8 THEN [ok |-> FALSE, val |-> Zeros(8), pos |-> pos + 8]
    ELSE [ok |-> TRUE, val |-> data, pos |-> pos + 8]

\* what a constructor, pack or unpack gives: a value, or an exception
Value(x) == [ok |-> TRUE, exc |-> "", val |-> x]
Raise(exc) == [ok |-> FALSE, exc |-> exc, val |-> PyNone]

\* the type every element of a list has: "type(item) != inner_type"
homogeneous(x) == \A i \in 1..Len(x.items) : x.items[i].t = x.items[1].t

\* the Python type a descriptor's constructor asks for
python_type(D) ==
    CASE D.d \in {"Int", "UInt"} -> "int"
      [] D.d = "Bool" -> "bool"
      [] D.d \in {"Float", "Double"} -> "float"
      [] D.d \in {"Str", "FString"} -> "str"
      [] D.d \in {"Bytes", "FBytes"} -> "bytes"
      [] D.d \in {"List", "Array", "FArray"} -> "list"

\* D.__init__(value): the value the object holds, or the exception
RpcType_init(D, x) ==
    CASE D.d \in {"Int", "UInt", "Bool", "Bytes"} ->
           \* lines 67, 90, 113, 214
           IF truthy(x) /\ x.t # python_type(D) THEN Raise("ValueError") ELSE Value(x)
      [] D.d \in {"Float", "Double"} ->
           \* lines 136, 159
           IF x.t # "float" THEN Raise("ValueError") ELSE Value(x)
      [] D.d = "Str" ->
           \* lines 182-189
           IF ~truthy(x) THEN Value(x)
           ELSE IF x.t # "str" THEN Raise("ValueError")
           ELSE Value(PyBytes(encode(x.v)))
      [] D.d = "FString" ->
           \* lines 242-252: a str has no decode
           IF ~truthy(x) THEN Value(x)
           ELSE IF x.t # "str" \/ Len(x.v) # D.n THEN Raise("ValueError")
           ELSE Raise("AttributeError")
      [] D.d = "FBytes" ->
           \* lines 279-287
           IF ~truthy(x) THEN Value(x)
           ELSE IF x.t # "bytes" \/ Len(x.v) # D.n THEN Raise("ValueError")
           ELSE Value(x)
      [] D.d \in {"List", "Array"} ->
           \* lines 314-325, 352-363
           IF ~truthy(x) THEN Value(x)
           ELSE IF x.t # "list" \/ ~homogeneous(x) THEN Raise("ValueError")
           ELSE Value(x)
      [] D.d = "FArray" ->
           \* lines 390-404
           IF ~truthy(x) THEN Value(x)
           ELSE IF x.t # "list" \/ Len(x.items) # D.n \/ ~homogeneous(x)
                THEN Raise("ValueError")
           ELSE Value(x)


\* what a packer function appends, or the exception it raises
Packed(b) == [ok |-> TRUE, exc |-> "", bytes |-> b]
PackRaise(exc) == [ok |-> FALSE, exc |-> exc, bytes |-> << >>]

\* the packer_func of a descriptor without inner type, applied to x
\* (xdrlib raises ConversionError where struct.pack rejects the value; a
\* float descriptor is only given floats and None here)
pack_item(D, x) ==
    CASE D.d = "Int" ->
           IF x.t \in {"int", "bool"} THEN Packed(pack_int(x.v[1]))
           ELSE PackRaise("ConversionError")
      [] D.d = "UInt" ->
           IF x.t \in {"int", "bool"} /\ x.v[1] >= 0 THEN Packed(pack_uint(x.v[1]))
           ELSE PackRaise("ConversionError")
      [] D.d = "Bool" -> Packed(pack_uint(IF truthy(x) THEN 1 ELSE 0))
      [] D.d = "Float" ->
           IF x.t = "float" THEN Packed(pack_float(x.v)) ELSE PackRaise("ConversionError")
      [] D.d = "Double" ->
           IF x.t = "float" THEN Packed(pack_double(x.v)) ELSE PackRaise("ConversionError")
      [] D.d \in {"Str", "Bytes"} ->
           \* pack_string: a str cannot be padded with bytes
           IF x.t = "bytes" THEN Packed(pack_opaque(x.v)) ELSE PackRaise("TypeError")
      [] D.d \in {"FString", "FBytes"} ->
           IF x.t = "bytes" THEN Packed(pack_fstring(D.n, x.v)) ELSE PackRaise("TypeError")

\* the items of pack_list (each after a 1) or of pack_farray, packed with
\* the inner type's packer_func
RECURSIVE pack_items(_, _, _)
pack_items(inner, items, islist) ==
    IF items = << >> THEN Packed(<< >>)
    ELSE LET first == pack_item(Scalar(inner), Head(items)) IN
         IF ~first.ok THEN first
         ELSE LET others == pack_items(inner, Tail(items), islist) IN
              IF ~others.ok THEN others
              ELSE Packed((IF islist THEN pack_uint(1) ELSE << >>)
                            \o first.bytes \o others.bytes)

Prefixed(prefix, p, suffix) ==
    IF p.ok THEN Packed(prefix \o p.bytes \o suffix) ELSE p

\* D.packer_func(packer, value)
packer_func(D, x) ==
    CASE D.d = "List" ->
           \* lines 301: pack_list
           IF x.t # "list" THEN PackRaise("TypeError")
           ELSE Prefixed(<< >>, pack_items(D.inner, x.items, TRUE), pack_uint(0))
      [] D.d = "Array" ->
           \* line 339: pack_array
           IF x.t # "list" THEN PackRaise("TypeError")
           ELSE Prefixed(pack_uint(Len(x.items)), pack_items(D.inner, x.items, FALSE),
                         << >>)
      [] D.d = "FArray" ->
           \* line 377: pack_farray
           IF x.t # "list" THEN PackRaise("TypeError")
           ELSE IF Len(x.items) # D.n THEN PackRaise("ValueError")
           ELSE pack_items(D.inner, x.items, FALSE)
      [] OTHER -> pack_item(D, x)

Unpacked(x, pos) == [ok |-> TRUE, val |-> x, pos |-> pos]
UnpackRaise(pos) == [ok |-> FALSE, val |-> PyNone, pos |-> pos]

\* the result r of an xdrlib unpack function as the Python value wrap(r.val)
Wrapped(r, x) == IF r.ok THEN Unpacked(x, r.pos) ELSE UnpackRaise(r.pos)

\* the unpacker_func of a descriptor without inner type
unpack_item(D, buf, pos) ==
    CASE D.d = "Int" ->
           LET r == unpack_int(buf, pos) IN Wrapped(r, PyInt(r.val))
      [] D.d = "UInt" ->
           LET r == unpack_uint(buf, pos) IN Wrapped(r, PyInt(r.val))
      [] D.d = "Bool" ->
           \* unpack_bool: bool(unpack_int())
           LET r == unpack_int(buf, pos) IN Wrapped(r, PyBool(r.val # 0))
      [] D.d = "Float" ->
           LET r == unpack_float(buf, pos) IN Wrapped(r, PyFloat(r.val))
      [] D.d = "Double" ->
           LET r == unpack_double(buf, pos) IN Wrapped(r, PyFloat(r.val))
      [] D.d \in {"Str", "Bytes"} ->
           LET r == unpack_opaque(buf, pos) IN Wrapped(r, PyBytes(r.val))
      [] D.d \in {"FString", "FBytes"} ->
           LET r == unpack_fstring(buf, pos, D.n) IN Wrapped(r, PyBytes(r.val))

\* Unpacker.unpack_farray(n, unpack_item)
RECURSIVE unpack_farray(_, _, _, _)
unpack_farray(inner, n, buf, pos) ==
    IF n = 0 THEN [ok |-> TRUE, items |-> << >>, pos |-> pos]
    ELSE LET first == unpack_item(Scalar(inner), buf, pos) IN
         IF ~first.ok THEN [ok |-> FALSE, items |-> << >>, pos |-> first.pos]
         ELSE LET others == unpack_farray(inner, n - 1, buf, first.pos) IN
              [ok |-> others.ok, items |-> <<first.val>> \o others.items,
               pos |-> others.pos]

\* Unpacker.unpack_list(unpack_item): items as long as a 1 precedes them
RECURSIVE unpack_list(_, _, _)
unpack_list(inner, buf, pos) ==
    LET x == unpack_uint(buf, pos) IN
    IF ~x.ok \/ x.val > 1 THEN [ok |-> FALSE, items |-> << >>, pos |-> x.pos]
    ELSE IF x.val = 0 THEN [ok |-> TRUE, items |-> << >>, pos |-> x.pos]
    ELSE LET first == unpack_item(Scalar(inner), buf, x.pos) IN
         IF ~first.ok THEN [ok |-> FALSE, items |-> << >>, pos |-> first.pos]
         ELSE LET others == unpack_list(inner, buf, first.pos) IN
              [ok |-> others.ok, items |-> <<first.val>> \o others.items,
               pos |-> others.pos]

\* D.unpacker_func(unpacker)
unpacker_func(D, buf, pos) ==
    CASE D.d = "List" ->
           LET r == unpack_list(D.inner, buf, pos) IN Wrapped(r, PyList(r.items))
      [] D.d = "Array" ->
           LET n == unpack_uint(buf, pos) IN
           IF ~n.ok THEN UnpackRaise(n.pos)
           ELSE LET r == unpack_farray(D.inner, n.val, buf, n.pos) IN
                Wrapped(r, PyList(r.items))
      [] D.d = "FArray" ->
           LET r == unpack_farray(D.inner, D.n, buf, pos) IN Wrapped(r, PyList(r.items))
      [] OTHER -> unpack_item(D, buf, pos)

\* post_processing: RpcStr decodes, every other class returns the value
post_processing(D, x) ==
    IF D.d = "Str"
    THEN LET s == decode(x.v) IN
         IF s.ok THEN Value(PyStr(s.val)) ELSE Raise("UnicodeDecodeError")
    ELSE Value(x)

\* RpcType.unpack on a buffer holding buf
RpcType_unpack(D, buf) ==
    LET r == unpacker_func(D, buf, 0) IN
    IF ~r.ok THEN Raise("EOFError") ELSE post_processing(D, r.val)

----------------------------------------------------------------------------
(* A value sent through a descriptor: D(v) is constructed and packed         *)
(* (Call.pack), then a fresh D() is constructed and unpacks the bytes        *)
(* (Call.unpack_all).                                                        *)

SeqsUpTo(S, n) == UNION {[1..k -> S] : k \in 0..n}

Ints == {-1, 0, 5}
UInts == {0, 7}
\* 0.0, 1.5, 0.1, -2.0
Floats == {Zeros(8), <<63, 248, 0, 0, 0, 0, 0, 0>>,
           <<63, 185, 153, 153, 153, 153, 153, 154>>, <<192, 0, 0, 0, 0, 0, 0, 0>>}
\* a, e with acute accent
Chars == {97, 233}
Octets == {0, 65}
Inners == {"Int", "Bool", "Float", "Str", "Bytes"}

Descriptors ==
    {Scalar(d) : d \in {"Int", "UInt", "Bool", "Float", "Double", "Str", "Bytes"}}
      \cup {Descriptor(d, n, "") : d \in {"FString", "FBytes"}, n \in 0..MaxFixed}
      \cup {Descriptor(d, 0, inner) : d \in {"List", "Array"}, inner \in Inners}
      \cup {Descriptor("FArray", n, inner) : n \in 0..MaxFixed, inner \in Inners}

\* the values valid for a descriptor without inner type, strings and bytes
\* up to length len
ScalarValues(D, len) ==
    CASE D.d = "Int" -> {PyInt(x) : x \in Ints}
      [] D.d = "UInt" -> {PyInt(x) : x \in UInts}
      [] D.d = "Bool" -> {PyBool(x) : x \in BOOLEAN}
      [] D.d \in {"Float", "Double"} -> {PyFloat(x) : x \in Floats}
      [] D.d = "Str" -> {PyStr(s) : s \in SeqsUpTo(Chars, len)}
      [] D.d = "Bytes" -> {PyBytes(s) : s \in SeqsUpTo(Octets, len)}
      [] D.d = "FString" -> {PyStr(s) : s \in [1..D.n -> Chars]}
      [] D.d = "FBytes" -> {PyBytes(s) : s \in [1..D.n -> Octets]}

\* the values valid for a descriptor
ValidValues(D) ==
    CASE D.d \in {"List", "Array"} ->
           {PyList(items) : items \in SeqsUpTo(ScalarValues(Scalar(D.inner), 1), MaxItems)}
      [] D.d = "FArray" ->
           {PyList(items) : items \in [1..D.n -> ScalarValues(Scalar(D.inner), 1)]}
      [] OTHER -> ScalarValues(D, MaxItems)

\* values of FString(n) and FBytes(n) whose length is not n
WrongLength(D) ==
    CASE D.d = "FString" ->
           {PyStr(s) : s \in {t \in SeqsUpTo(Chars, MaxFixed + 1) : Len(t) # D.n}}
      [] D.d = "FBytes" ->
           {PyBytes(s) : s \in {t \in SeqsUpTo(Octets, MaxFixed + 1) : Len(t) # D.n}}
      [] OTHER -> {}

NoOutcome == Raise("")

InitXdr ==
    /\ server \in Servers
    /\ status = "listening"
    /\ hpc = "xdr"
    /\ call_in = << >>
    /\ h = NotHandled
    /\ rcvd = << >>
    /\ sent = << >>
    /\ client = NoClient
    /\ xids = << >>
    /\ call = NoCall
    /\ reply_in = << >>
    /\ ret = NoRet
    /\ frag = NoFrag
    /\ tcpc = NoTCPClient
    /\ udpc = NoUDPClient
    /\ conns = NoConns
    /\ pxy = NoProxy
    /\ reg = NoReg
    /\ \E D \in Descriptors : \E v \in ValidValues(D) \cup WrongLength(D) :
         xdr = [pc |-> "start", D |-> D, v |-> v, obj |-> PyNone, buf |-> << >>,
                at |-> "", out |-> NoOutcome]

XdrUnchanged ==
    UNCHANGED <<server, hpc, call_in, h, status, rcvd, sent, client, xids, call,
                reply_in, ret, frag, tcpc, udpc, conns, pxy, reg>>

\* the step ends the run with the exception of r
Ended(x, at, r) == [x EXCEPT !.pc = "done", !.at = at, !.out = r]

\* arg_type(arg): D(v) is constructed
RpcType_construct ==
    /\ xdr.pc = "start"
    /\ \E r \in {RpcType_init(xdr.D, xdr.v)} :
         xdr' = IF r.ok THEN [xdr EXCEPT !.pc = "constructed", !.obj = r.val]
                ELSE Ended(xdr, "construct", r)
    /\ XdrUnchanged

\* Call.pack: arg.pack(self.packer)
RpcType_pack ==
    /\ xdr.pc = "constructed"
    /\ \E p \in {packer_func(xdr.D, xdr.obj)} :
         xdr' = IF p.ok THEN [xdr EXCEPT !.pc = "packed", !.buf = p.bytes]
                ELSE Ended(xdr, "pack", Raise(p.exc))
    /\ XdrUnchanged

\* Call.unpack_all line 416: obj = ret()
RpcType_fresh ==
    /\ xdr.pc = "packed"
    /\ \E r \in {RpcType_init(xdr.D, PyNone)} :
         xdr' = IF r.ok THEN [xdr EXCEPT !.pc = "fresh", !.obj = r.val]
                ELSE Ended(xdr, "fresh", r)
    /\ XdrUnchanged

\* Call.unpack_all line 417: item = obj.unpack(self.unpacker)
RpcType_unpacked ==
    /\ xdr.pc = "fresh"
    /\ xdr' = [xdr EXCEPT !.pc = "done", !.at = "unpack",
                          !.out = RpcType_unpack(xdr.D, xdr.buf)]
    /\ XdrUnchanged

NextXdr ==
    \/ RpcType_construct
    \/ RpcType_pack
    \/ RpcType_fresh
    \/ RpcType_unpacked

SpecXdr == InitXdr /\ [][NextXdr]_vars

\* C30: for every descriptor D and every value v valid for D (zero, false,
\* the empty string and empty collections included), constructing D(v),
\* packing it and unpacking with a fresh D() yields v.
C30_RoundTrip ==
    (xdr.pc = "done" /\ xdr.v \in ValidValues(xdr.D)) => xdr.out = Value(xdr.v)

\* C32: FString(n) and FBytes(n) reject at construction, before any byte is
\* packed, every value whose length is not n, the empty value for n > 0
\* included, and accept every value of length n.
C32_FixedLength ==
    (xdr.D.d \in {"FString", "FBytes"} /\ xdr.pc # "start") =>
      /\ Len(xdr.v.v) # xdr.D.n =>
           (xdr.pc = "done" /\ xdr.at = "construct" /\ xdr.buf = << >>)
      /\ Len(xdr.v.v) = xdr.D.n => ~(xdr.pc = "done" /\ xdr.at = "construct")


\* the record ends on a word boundary
Aligned(b) == Len(b) % 4 = 0

\* C31: every packer buffer has a length that is a multiple of 4: the
\* upstream call the proxy assembles from the header and the raw argument
\* tail, the packer of the reply, and the reply the proxy sends to its client
\* with the raw result tail.
C31_Alignment ==
    /\ \A i \in 1..Len(pxy.fwd.sends) : Aligned(pxy.fwd.sends[i])
    /\ Aligned(h.packer)
    /\ \A i \in 1..Len(pxy.out) : Aligned(pxy.out[i])

(***************************************************************************)
(* UDPClient.do_call, termination.  The passes of the "while 1" loop go on *)
(* after the MaxDatagrams passes that SpecUDPClient keeps on record: a     *)
(* later pass that receives a datagram does what every such pass does, and *)
(* only the record of passes (rets, srcs, elapsed) is no longer extended.  *)
(* select returns in every pass, at the latest when its timeout is over, so *)
(* the loop as a whole is weakly fair; which of the two ways select returns *)
(* is up to the network.                                                   *)
(***************************************************************************)

\* do_call lines 312-314 in a pass after the recorded ones
do_call_received_more(u, s) ==
    [do_call_received(u, s, 0, "peer") EXCEPT !.rets = u.rets, !.srcs = u.srcs]

\* do_call lines 296-314, one pass in which select reports the socket
\* readable, after the recorded passes
UDPClient_do_call_recv_more(reply) ==
    /\ udpc.pc = "wait"
    /\ Len(udpc.rets) >= MaxDatagrams
    /\ reply_in' = reply
    /\ \E s \in {set_reply(wire_call(udpc, call), reply)} :
         /\ udpc' = do_call_received_more(udpc, s)
         /\ call' = IF udpc.tunnel THEN call ELSE s.call
         /\ ret' = s.ret
    /\ UNCHANGED <<server, hpc, call_in, h, status, rcvd, sent, client, xids,
                   frag, tcpc,
                   rest>>

\* one pass of the loop of do_call
UDPClient_do_call_pass ==
    \/ UDPClient_do_call_timeout
    \/ \E reply \in DatagramReplies, delay \in Delays, src \in Sources :
         UDPClient_do_call_recv(reply, delay, src)
    \/ \E reply \in DatagramReplies : UDPClient_do_call_recv_more(reply)

NextUDPClientFair ==
    \/ NextUDPClient
    \/ \E reply \in DatagramReplies : UDPClient_do_call_recv_more(reply)

SpecUDPClientFair ==
    InitUDPClient /\ [][NextUDPClientFair]_vars /\ WF_vars(UDPClient_do_call_pass)

\* C35: do_call without tunnel always terminates: once the call is sent,
\* do_call eventually returns or raises (with timeout when no reply with the
\* call's xid arrives), also when replies with other xids keep arriving.
C35_Termination ==
    (udpc.pc = "wait" /\ ~udpc.tunnel) ~> (udpc.pc \in {"returned", "raised"})

\* C36: recvrecord returns the record whatever pieces the stream delivers it
\* in, a fragment header found in part by recv(4) included, and raises no
\* EOFError, when every byte written arrives before the stream is closed.
C36_ChunkIndependence ==
    (frag.pc = "received" /\ frag.cut = Len(Flatten(frag.writes))) =>
      (frag.out.kind = "ok" /\ frag.out.data = frag.record)

----------------------------------------------------------------------------
(* AsyncTCPClient: client.py lines 138-168 and the wrapper of               *)
(* rpc_client_send_async (lines 449-462).  Several tasks run the wrapper on *)
(* one client object.  A task is suspended at an await only: make_call and  *)
(* the packing of the arguments run without suspension; open_connection,    *)
(* async_sendrecord and every async_recvrecord are suspension points.  Each *)
(* do_call opens its own connection, on which the peer writes what it       *)
(* likes.                                                                   *)

MaxTasks == 2          \* tasks that call through one AsyncTCPClient

Tasks == 1..MaxTasks

\* a task whose wrapper has not started; out and inbox are the two directions
\* of the connection its do_call will open
NewTask ==
    [pc |-> "new", call |-> NoCall, out |-> << >>, inbox |-> << >>,
     reads |-> << >>, rets |-> << >>, exc |-> ""]

\* what a peer writes on a connection: a result for the xid of each call, and
\* an error for the first
AsyncReplies ==
    {SuccessHead(xid) \o pack_int(42) : xid \in 1..MaxTasks}
      \cup {pack_uint(1) \o AcceptedBody(PROG_UNAVAIL)}

InitAsyncClient ==
    /\ client \in Clients
    /\ xids = << >>
    /\ call = NoCall
    /\ reply_in = << >>
    /\ ret = NoRet
    /\ tcpc = [pc |-> "async", tasks |-> [t \in Tasks |-> NewTask],
               order |-> << >>, written |-> 0]
    /\ server \in {s \in Servers : s.kind = "AsyncTCPServer"}
    /\ status = "listening"
    /\ hpc = "asyncclient"
    /\ call_in = << >>
    /\ h = NotHandled
    /\ rcvd = << >>
    /\ sent = << >>
    /\ frag = NoFrag
    /\ udpc = NoUDPClient
    /\ InitRest

AsyncUnchanged ==
    UNCHANGED <<server, hpc, call_in, h, status, rcvd, sent, call, reply_in, ret,
                frag, udpc, rest>>

\* wrapper lines 454-460 of task t: make_call(proc) on the shared client, up
\* to the await of do_call
AsyncTask_make_call(t, proc) ==
    /\ tcpc.tasks[t].pc = "new"
    /\ client' = [client EXCEPT !.lastxid = next_xid(client.lastxid)]
    /\ xids' = Append(xids, client'.lastxid)
    /\ tcpc' = [tcpc EXCEPT
                  !.tasks[t].pc = "made",
                  !.tasks[t].call = Call(client'.lastxid, client.prog, client.vers,
                                         proc, client.cred, client.verf),
                  !.order = Append(@, t)]
    /\ AsyncUnchanged

\* do_call line 157: the task's own connection
AsyncTask_open_connection(t) ==
    /\ tcpc.tasks[t].pc = "made"
    /\ tcpc' = [tcpc EXCEPT !.tasks[t].pc = "open"]
    /\ UNCHANGED <<client, xids>>
    /\ AsyncUnchanged

\* do_call line 159: async_sendrecord(writer, call.bytes())
AsyncTask_sendrecord(t) ==
    /\ tcpc.tasks[t].pc = "open"
    /\ tcpc' = [tcpc EXCEPT
                  !.tasks[t].pc = "recv",
                  !.tasks[t].out = sendrecord(tcpc.tasks[t].call.packer, FRAGMENT_SIZE)]
    /\ UNCHANGED <<client, xids>>
    /\ AsyncUnchanged

\* the peer writes a reply record on the connection of task t
Peer_write(t, reply) ==
    /\ tcpc.tasks[t].pc = "recv"
    /\ tcpc.written < MaxReads
    /\ tcpc' = [tcpc EXCEPT !.tasks[t].inbox = Append(@, reply),
                            !.written = @ + 1]
    /\ UNCHANGED <<client, xids>>
    /\ AsyncUnchanged

\* do_call lines 161-168, one pass of task t: async_recvrecord on its reader,
\* set_reply on its Call; the connection is closed when the loop is left
AsyncTask_recvrecord(t) ==
    /\ tcpc.tasks[t].pc = "recv"
    /\ tcpc.tasks[t].inbox # << >>
    /\ \E p \in {do_call_pass(tcpc.tasks[t].call, tcpc.tasks[t],
                              recvrecord(Flatten(sendrecord(Head(tcpc.tasks[t].inbox),
                                                            FRAGMENT_SIZE)),
                                         FALSE, 4))} :
         tcpc' = [tcpc EXCEPT
                    !.tasks[t] = [p.tcpc EXCEPT !.call = p.call,
                                                !.inbox = Tail(tcpc.tasks[t].inbox)]]
    /\ UNCHANGED <<client, xids>>
    /\ AsyncUnchanged

NextAsyncClient ==
    \/ \E t \in Tasks : AsyncTask_make_call(t, ProcEcho)
    \/ \E t \in Tasks : AsyncTask_open_connection(t)
    \/ \E t \in Tasks : AsyncTask_sendrecord(t)
    \/ \E t \in Tasks, reply \in AsyncReplies : Peer_write(t, reply)
    \/ \E t \in Tasks : AsyncTask_recvrecord(t)

SpecAsyncClient == InitAsyncClient /\ [][NextAsyncClient]_vars

\* C37: the calls of the tasks have distinct xids; the i-th make_call on the
\* client got xid i, whichever task made it; and a task whose do_call
\* returned holds the last record read from its own connection, which
\* carries its call's xid, having discarded every record read before it.
C37_AsyncXids ==
    /\ \A t1, t2 \in Tasks :
         (t1 # t2 /\ tcpc.tasks[t1].pc # "new" /\ tcpc.tasks[t2].pc # "new")
           => tcpc.tasks[t1].call.xid # tcpc.tasks[t2].call.xid
    /\ \A i \in 1..Len(tcpc.order) :
         /\ tcpc.tasks[tcpc.order[i]].call.xid = i
         /\ Word(tcpc.tasks[tcpc.order[i]].call.packer, 0) = pack_uint(i)
    /\ \A t \in Tasks :
         tcpc.tasks[t].pc = "returned" =>
           /\ tcpc.tasks[t].reads # << >>
           /\ tcpc.tasks[t].call.ubuf = tcpc.tasks[t].reads[Len(tcpc.tasks[t].reads)]
           /\ Word(tcpc.tasks[t].call.ubuf, 0) = pack_uint(tcpc.tasks[t].call.xid)
           /\ \A i \in 1..(Len(tcpc.tasks[t].reads) - 1) :
                Word(tcpc.tasks[t].reads[i], 0) # pack_uint(tcpc.tasks[t].call.xid)

\* C37 witness: task 2 called make_call first; both do_calls returned, and
\* task 1 had first read, on its connection, the reply to the call of task 2
C37_Witness ==
    /\ tcpc.order = <<2, 1>>
    /\ tcpc.tasks[1].pc = "returned"
    /\ tcpc.tasks[2].pc = "returned"
    /\ tcpc.tasks[1].call.xid = 2
    /\ tcpc.tasks[1].rets = <<"false", "true">>
    /\ Word(tcpc.tasks[1].reads[1], 0) = pack_uint(tcpc.tasks[2].call.xid)

\* the upstream answered the forwarded call with accept status GARBAGE_ARGS
UpstreamGarbage ==
    /\ ForwardedCall
    /\ pxy.fwd.up.ret.kind = "reply"
    /\ pxy.fwd.up.ret.bytes = AcceptedReply(pxy.fwd.sends[1], GARBAGE_ARGS)

\* C38: when the upstream answers a forwarded call with GARBAGE_ARGS, the
\* proxy writes one reply to its client: the xid of the incoming call, REPLY,
\* MSG_ACCEPTED, NULL verifier, GARBAGE_ARGS.
C38_GarbageForwarded ==
    UpstreamGarbage => pxy.out = <<AcceptedReply(call_in, GARBAGE_ARGS)>>

\* C38 witness: the library's server behind a UDPProxy found no argument in
\* the forwarded call of procedure 1; the proxy answered xid 9 with
\* GARBAGE_ARGS and goes on serving
C38_Witness ==
    /\ UpstreamGarbage
    /\ server.kind = "UDPProxy"
    /\ server.target.kind = "sunrpc"
    /\ pxy.attrs.call_id = ProcEcho
    /\ pxy.out = <<pack_uint(9) \o AcceptedBody(GARBAGE_ARGS)>>
    /\ pxy.pc = "serving"

\* the upstream answered the forwarded call with PROG_UNAVAIL, PROG_MISMATCH,
\* PROC_UNAVAIL or MSG_DENIED
UpstreamErrorReply ==
    /\ ForwardedCall
    /\ pxy.fwd.up.ret.kind = "reply"
    /\ \/ IsWord(pxy.fwd.up.ret.bytes, 2, MSG_DENIED)
       \/ /\ IsWord(pxy.fwd.up.ret.bytes, 2, MSG_ACCEPTED)
          /\ \E stat \in {PROG_UNAVAIL, PROG_MISMATCH, PROC_UNAVAIL} :
               IsWord(pxy.fwd.up.ret.bytes, 5, stat)

\* C39: when the upstream answers a forwarded call with PROG_UNAVAIL,
\* PROG_MISMATCH, PROC_UNAVAIL or MSG_DENIED, the proxy writes one reply
\* record to its client and goes on serving.
C39_AlwaysAnswered ==
    UpstreamErrorReply => (Len(pxy.out) = 1 /\ pxy.pc = "serving")

----------------------------------------------------------------------------
(* The width of the xid.  self.lastxid is a Python int, which has no upper  *)
(* limit; the xid field of a header has 32 bits.  An int is kept here as    *)
(* [hi, lo], standing for hi * 2^16 + lo with 0 <= lo < 2^16 and hi any     *)
(* natural number, so that values of 2^32 and more can be told from their   *)
(* residues.  The operations are make_call on a client (client.py lines     *)
(* 55-56) and Proxy.process_call, which sets the lastxid of the proxy's     *)
(* client to the incoming xid and then calls make_call (proxy.py lines      *)
(* 69-73).                                                                  *)

BigInt(hi, lo) == [hi |-> hi, lo |-> lo]

\* make_call line 55: self.lastxid + 1, no reduction
int_add_one(x) ==
    IF x.lo + 1 = 2^16 THEN BigInt(x.hi + 1, 0) ELSE BigInt(x.hi, x.lo + 1)

\* xdrlib.Packer.pack_uint, struct.pack('>L', x): 0 <= x <= 4294967295, or
\* struct.error, which xdrlib raises as ConversionError
fits_uint(x) == x.hi < 2^16

\* the four bytes of struct.pack('>L', x)
int_pack_uint(x) ==
    <<(x.hi \div 256) % 256, x.hi % 256, x.lo \div 256, x.lo % 256>>

\* struct.unpack('>L', b)
int_unpack_uint(b) == BigInt(b[1] * 256 + b[2], b[3] * 256 + b[4])

\* what follows the xid in a call header
AfterXid(header) == SubSeq(header, 5, Len(header))

\* Call.__init__ with xid: pack_callheader puts xid first (sunrpc.py line
\* 146); no Call comes into being when pack_uint raises
WideCall(xid, prog, vers, proc, cred, verf) ==
    IF fits_uint(xid)
    THEN [xid |-> xid, exc |-> "",
          packer |-> int_pack_uint(xid)
                       \o AfterXid(pack_callheader(0, prog, vers, proc,
                                                   auth_or_null(cred), auth_or_null(verf)))]
    ELSE [xid |-> xid, exc |-> "ConversionError", packer |-> << >>]

\* lastxid of a client on which make_call ran n times: n
CallsBefore == {BigInt(0, 0), BigInt(2^15 - 1, 2^16 - 2), BigInt(2^16 - 1, 2^16 - 3)}

\* xids of the calls a proxy receives
IncomingXids ==
    {<<0, 0, 0, 9>>, <<127, 255, 255, 255>>, <<255, 255, 255, 254>>,
     <<255, 255, 255, 255>>}

InitXid ==
    /\ \E n \in CallsBefore :
         client = [lastxid |-> n, prog |-> 1337, vers |-> 2, cred |-> None, verf |-> None]
    /\ xids = << >>
    /\ call = NoCall
    /\ reply_in = << >>
    /\ ret = NoRet
    /\ tcpc = NoTCPClient
    /\ server \in {s \in Servers : s.kind = "TCPServer"}
    /\ status = "listening"
    /\ hpc = "xid"
    /\ call_in = << >>
    /\ h = NotHandled
    /\ rcvd = << >>
    /\ sent = << >>
    /\ frag = NoFrag
    /\ udpc = NoUDPClient
    /\ InitRest

XidUnchanged ==
    UNCHANGED <<server, hpc, h, status, rcvd, sent, reply_in, ret, frag, tcpc, udpc,
                rest>>

\* Client.make_call(proc), lines 55-56, on the client cl
Client_make_call(cl, proc) ==
    /\ Len(xids) < MaxCalls
    /\ client' = [cl EXCEPT !.lastxid = int_add_one(cl.lastxid)]
    /\ call' = WideCall(client'.lastxid, cl.prog, cl.vers, proc, cl.cred, cl.verf)
    /\ xids' = Append(xids, client'.lastxid)

\* a caller's make_call
Xid_make_call(proc) ==
    /\ Client_make_call(client, proc)
    /\ UNCHANGED call_in
    /\ XidUnchanged

\* Proxy.process_call lines 69-73 for an incoming call with the xid bytes x
\* (NULL cred and verf): self.client.lastxid = xid, then make_call(call_id)
Xid_process_call(x, proc) ==
    /\ call_in' = x
    /\ Client_make_call([client EXCEPT !.lastxid = int_unpack_uint(x),
                                       !.cred = Some(NullAuth),
                                       !.verf = Some(NullAuth)], proc)
    /\ XidUnchanged

NextXid ==
    \/ \E proc \in Procs : Xid_make_call(proc)
    \/ \E x \in IncomingXids, proc \in Procs : Xid_process_call(x, proc)

SpecXid == InitXid /\ [][NextXid]_vars

\* C40: every make_call, on a client after any number of calls and on the
\* proxy's client for every incoming xid, yields a call whose header starts
\* with a valid 32-bit xid: the xid that make_call allocated, below 2^32.
C40_XidWidth ==
    xids # << >> =>
      /\ call.exc = ""
      /\ call.xid.hi < 2^16
      /\ HasWord(call.packer, 0)
      /\ int_unpack_uint(Word(call.packer, 0)) = call.xid
      /\ call.xid = xids[Len(xids)]

====
